---- MODULE Spec2Model ----
(***************************************************************************)
(* A model of the Metlink Explorer integration: the config flow's route    *)
(* selector (config_flow.py), the API client's stop-pattern resolver,      *)
(* real-time matcher and timeline builder (api.py) and the coordinator's   *)
(* refresh (sensor.py).                                                    *)
(*                                                                         *)
(* Python values are modelled as follows.                                  *)
(*   - None is NULL, the empty tuple; every value that may be None is a    *)
(*     non-empty tuple.                                                    *)
(*   - A text whose characters matter (route names, stop names) is a       *)
(*     sequence of one-character strings; Ord gives the code point that    *)
(*     Python's string comparison uses.                                    *)
(*   - An identifier of the remote API is <<"int", n>> or <<"str", n>>:    *)
(*     the number n, or the text of its decimal digits. Python's == tells  *)
(*     the two apart, str() maps both to <<"str", n>>.                     *)
(*   - A time of day "HH:MM:SS" is <<h, m, s>>, three two-digit fields.    *)
(***************************************************************************)
EXTENDS Integers, Sequences, FiniteSets, TLC

VARIABLES
    flow_step,          \* config flow: the step whose form is shown
    available_routes,   \* config flow: self._available_routes
    route_options,      \* config flow: the route_id keys of the options dict, in dict order
    flow_transportation_type, \* config flow: self._transportation_type
    flow_errors,        \* config flow: errors["base"] of the form shown, or NULL
    current_entries,    \* config flow: the data of self._async_current_entries()
    other_flow,         \* config flow: the fields of a second flow that is in progress
    remote_routes,      \* remote API: the body of /gtfs/routes
    remote_trips,       \* remote API: the body of /gtfs/trips
    remote_stop_times,  \* remote API: the body of /gtfs/stop_times?trip_id=n, by n
    remote_stops,       \* remote API: the body of /gtfs/stops
    remote_predictions, \* remote API: the bodies /stop-predictions may answer with
    remote_trip_updates,\* remote API: the body of /gtfs-rt/tripupdates
    remote_silent,      \* remote API: it has stopped answering requests
    now,                \* the clock: what datetime.now() returns
    self_route_id,           \* self.route_id
    self_direction_id,       \* self.direction_id
    pc,                 \* the await the refresh stands at, or "idle"
    upd_trips,              \* _async_update_data: trips
    upd_vehicle_positions,  \* _async_update_data: vehicle_positions
    upd_trip_updates,       \* _async_update_data: trip_updates
    card_stop_pattern,       \* get_route_timeline_for_card: stop_pattern
    card_timeline_stops,     \* get_route_timeline_for_card: timeline_stops
    route_timeline_data,\* _async_update_data: route_timeline_data
    route_stop_data,    \* _async_update_data: route_stop_data
    data,               \* coordinator.data: <<>> (None) or <<the dict>>
    last_update_success,\* coordinator.last_update_success
    outcome,            \* how the latest refresh ended: "none", "ok" or the exception
    failed,             \* the requests of the current refresh that raised
    answers             \* the kinds of the stop-predictions answers of the current loop

NULL == <<>>

(***************************************************************************)
(* Text                                                                    *)
(***************************************************************************)
Digits == <<"0", "1", "2", "3", "4", "5", "6", "7", "8", "9">>
Uppers == <<"A", "B", "C", "D", "E", "F", "G", "H", "I", "J", "K", "L", "M",
            "N", "O", "P", "Q", "R", "S", "T", "U", "V", "W", "X", "Y", "Z">>
Lowers == <<"a", "b", "c", "d", "e", "f", "g", "h", "i", "j", "k", "l", "m",
            "n", "o", "p", "q", "r", "s", "t", "u", "v", "w", "x", "y", "z">>

Range(s) == {s[i] : i \in DOMAIN s}

IndexOf(c, s) == CHOOSE i \in DOMAIN s : s[i] = c

IsDigit(c) == c \in Range(Digits)
IsUpper(c) == c \in Range(Uppers)
IsLower(c) == c \in Range(Lowers)
IsAlpha(c) == IsUpper(c) \/ IsLower(c)

\* The code point of a character (ASCII); a space is 32.
Ord(c) ==
    IF IsDigit(c) THEN 47 + IndexOf(c, Digits)
    ELSE IF IsUpper(c) THEN 64 + IndexOf(c, Uppers)
    ELSE IF IsLower(c) THEN 96 + IndexOf(c, Lowers)
    ELSE 32

\* str.lower()
LowerChar(c) == IF IsUpper(c) THEN Lowers[IndexOf(c, Uppers)] ELSE c
Lower(s) == [i \in DOMAIN s |-> LowerChar(s[i])]

\* Python's s < t on str: lexicographic by code point, a proper prefix first.
RECURSIVE StrLess(_, _)
StrLess(s, t) ==
    IF t = <<>> THEN FALSE
    ELSE IF s = <<>> THEN TRUE
    ELSE IF Ord(Head(s)) # Ord(Head(t)) THEN Ord(Head(s)) < Ord(Head(t))
    ELSE StrLess(Tail(s), Tail(t))

\* The length of the longest prefix of s made of characters of the set.
PrefixLen(s, class) ==
    LET ok == {k \in 0..Len(s) : \A j \in 1..k : s[j] \in class}
    IN  CHOOSE k \in ok : \A m \in ok : m <= k

DigitChars == Range(Digits)
AlphaChars == Range(Uppers) \cup Range(Lowers)

\* The value of a run of decimal digits.
RECURSIVE DigitsValue(_)
DigitsValue(s) ==
    IF s = <<>> THEN 0
    ELSE 10 * DigitsValue(SubSeq(s, 1, Len(s) - 1)) + (Ord(s[Len(s)]) - 48)

\* int(s) on a text of digits and letters: <<value>>, or NULL for ValueError.
IntOf(s) ==
    IF s # <<>> /\ PrefixLen(s, DigitChars) = Len(s) THEN <<DigitsValue(s)>> ELSE NULL

(***************************************************************************)
(* sorted() and list.sort(): Python's stable sort.  less[<<i, j>>] is      *)
(* key(s[i]) < key(s[j]); an element's place is the number of elements     *)
(* that go before it: those with a smaller key, and those with an equal    *)
(* key that stood before it.                                               *)
(***************************************************************************)
Sorted(s, less) ==
    LET before(i) ==
            {j \in DOMAIN s :
                \/ less[<<j, i>>]
                \/ ~less[<<i, j>>] /\ j < i}
    IN  [k \in DOMAIN s |->
            s[CHOOSE i \in DOMAIN s : Cardinality(before(i)) = k - 1]]

Pairs(s) == (DOMAIN s) \X (DOMAIN s)

(***************************************************************************)
(* Values of the remote API                                                *)
(***************************************************************************)
\* str(x) of an identifier.
Str(id) == <<"str", id[2]>>

\* bool(x) of a value that may be None: None and the empty text are falsy.
Truthy(x) == x # NULL

\* A time of day as seconds after midnight, "%H:%M:%S" of such a time, and
\* whether strptime accepts the text.
TimeValue(t) == t[1] * 3600 + t[2] * 60 + t[3]
TimeText(n) == <<n \div 3600, (n % 3600) \div 60, n % 60>>
TimeParses(t) == t[1] \in 0..23 /\ t[2] \in 0..59 /\ t[3] \in 0..59

\* s < t on two texts "HH:MM:SS".
TimeLess(s, t) ==
    \/ s[1] < t[1]
    \/ s[1] = t[1] /\ s[2] < t[2]
    \/ s[1] = t[1] /\ s[2] = t[2] /\ s[3] < t[3]

\* dict.get(key, default)
DictGet(d, key, default) == IF key \in DOMAIN d THEN d[key] ELSE default

\* The outcome of one request: the parsed body, or MetlinkApiError (a timeout
\* or a client error, _request).
Answer(body) == [ok |-> TRUE, body |-> body]
NoAnswer == [ok |-> FALSE]

\* What a coroutine does: it returns a value or raises; "at" names the fetch
\* that failed.
Return(v) == [raised |-> FALSE, value |-> v]
Raise(exc, at) == [raised |-> TRUE, exc |-> exc, at |-> at]

\* len(x) of a JSON body: a list or an object has a length, null has none.
HasLen(body) == body[1] \in {"list", "dict"}

(***************************************************************************)
(* api.py: the stop-pattern resolver                                       *)
(***************************************************************************)
get_trips_for_route(route_id, fetched) ==
    IF ~fetched.ok THEN Raise("MetlinkApiError", "trips")
    ELSE Return(SelectSeq(fetched.body,
                          LAMBDA trip : Str(trip.route_id) = Str(route_id)))

\* key=lambda x: x.get("stop_sequence", 0)
StopSequenceLess(a, b) ==
    DictGet(a, "stop_sequence", 0) < DictGet(b, "stop_sequence", 0)

\* fetched.body maps the trip_id of the request to the body of the answer.
get_stop_times_for_trip(trip_id, fetched) ==
    IF ~fetched.ok THEN Raise("MetlinkApiError", "stop_times")
    ELSE LET stop_times == fetched.body[Str(trip_id)[2]]
         IN  IF stop_times[1] # "list" THEN Return(<<>>)
             ELSE Return(Sorted(stop_times[2],
                     [p \in Pairs(stop_times[2]) |->
                        StopSequenceLess(stop_times[2][p[1]], stop_times[2][p[2]])]))

get_stops(fetched) ==
    IF ~fetched.ok THEN Raise("MetlinkApiError", "stops") ELSE Return(fetched.body)

\* A fault seeded for C5: the lookup with the identifiers as fetched, without
\* str().
InStopsDictRaw(all_stops, key) ==
    \E i \in DOMAIN all_stops : all_stops[i].stop_id = key

\* stops_dict = {str(stop["stop_id"]): stop for stop in all_stops}: the last
\* stop with a key is the one kept.
InStopsDict(all_stops, key) ==
    \E i \in DOMAIN all_stops : Str(all_stops[i].stop_id) = key
StopsDictGet(all_stops, key) ==
    LET at == {i \in DOMAIN all_stops : Str(all_stops[i].stop_id) = key}
    IN  all_stops[CHOOSE i \in at : \A j \in at : j <= i]

\* stop_info = stops_dict[stop_id].copy(); stop_info.update({...})
StopInfo(stop, stop_time) ==
    [stop_id |-> stop.stop_id,
     stop_name |-> stop.stop_name,
     stop_sequence |-> stop_time.stop_sequence,
     arrival_time |-> DictGet(stop_time, "arrival_time", NULL),
     departure_time |-> DictGet(stop_time, "departure_time", NULL)]

\* A fault seeded for C25: the last trip of the direction as the sample.
SampleTripLast(direction_trips) == direction_trips[Len(direction_trips)]

\* Line 131: sample_trip = direction_trips[0]
SampleTrip(direction_trips) == direction_trips[1]

\* net holds the outcome of each request the coroutine makes: net.trips,
\* net.stop_times, net.stops.
get_route_stop_pattern(route_id, direction_id, net) ==
    LET trips == get_trips_for_route(route_id, net.trips)
    IN  IF trips.raised THEN trips
        ELSE
        LET direction_trips ==
                SelectSeq(trips.value, LAMBDA t : t.direction_id = direction_id)
        IN  IF direction_trips = <<>> THEN Return(<<>>)
            ELSE
            LET sample_trip == SampleTrip(direction_trips)
                stop_times == get_stop_times_for_trip(sample_trip.trip_id,
                                                      net.stop_times)
            IN  IF stop_times.raised THEN stop_times
                ELSE IF stop_times.value = <<>> THEN Return(<<>>)
                ELSE
                LET all_stops == get_stops(net.stops)
                IN  IF all_stops.raised THEN all_stops
                    ELSE
                    LET known == SelectSeq(stop_times.value,
                                     LAMBDA st : InStopsDict(all_stops.value,
                                                             Str(st.stop_id)))
                    IN  Return([i \in DOMAIN known |->
                                  StopInfo(StopsDictGet(all_stops.value,
                                                        Str(known[i].stop_id)),
                                           known[i])])

(***************************************************************************)
(* api.py: point predictions and the timeline builder                      *)
(***************************************************************************)
\* The answer of the stop-predictions request is [kind |-> "ok", body |-> b]
\* (status 200), [kind |-> "status"] (any other status) or [kind |-> "error"]
\* (the request raised: a transport failure, a timeout).
get_stop_predictions(response) ==
    IF response.kind = "ok" /\ response.body[1] = "list"
    THEN response.body[2]
    ELSE <<>>

\* key=lambda x: x.get("departure_time", "99:99:99")
DepartureKey(pred) == DictGet(pred, "departure_time", <<99, 99, 99>>)

\* Lines 352-370: the predictions kept for a stop.  The list comprehension
\* evaluates self._get_route_short_name(route_id).lower() for a prediction
\* whose route_id differs; _get_route_short_name is a coroutine function, the
\* call is not awaited, and .lower() on the coroutine raises AttributeError.
\* sorted() compares the keys of a list of two or more and raises TypeError
\* when one is None.  Both are caught at line 369 and leave predictions = [].
RelevantPredictions(stop_predictions, route_id, direction_id) ==
    IF stop_predictions = <<>> THEN <<>>
    ELSE IF \E i \in DOMAIN stop_predictions :
               Str(stop_predictions[i].route_id) # Str(route_id)
    THEN <<>>
    ELSE
    LET relevant_predictions ==
            SelectSeq(stop_predictions,
                      LAMBDA pred : DictGet(pred, "direction_id", NULL) = direction_id)
    IN  IF /\ Len(relevant_predictions) >= 2
           /\ \E i \in DOMAIN relevant_predictions :
                 DepartureKey(relevant_predictions[i]) = NULL
        THEN <<>>
        ELSE
        LET sorted_predictions ==
                IF Len(relevant_predictions) < 2 THEN relevant_predictions
                ELSE
                Sorted(relevant_predictions,
                       [p \in Pairs(relevant_predictions) |->
                          TimeLess(DepartureKey(relevant_predictions[p[1]]),
                                   DepartureKey(relevant_predictions[p[2]]))])
        IN  SubSeq(sorted_predictions, 1,
                   IF Len(sorted_predictions) < 3 THEN Len(sorted_predictions) ELSE 3)

\* A fault seeded for C7: the seconds form kept up to and including 60.
EtaDisplayLate(eta_seconds) ==
    LET eta_minutes == eta_seconds \div 60
        eta_remaining_seconds == eta_seconds % 60
    IN  IF eta_seconds <= 0 THEN <<"Due now">>
        ELSE IF eta_seconds <= 60 THEN <<"s", eta_seconds>>
        ELSE IF eta_minutes < 60 THEN <<"ms", eta_minutes, eta_remaining_seconds>>
        ELSE <<"hm", eta_minutes \div 60, eta_minutes % 60>>

\* Lines 391-405: the text of an ETA.  "Due now", "{s}s", "{m}m {s}s" and
\* "{h}h {m}m" are <<"Due now">>, <<"s", s>>, <<"ms", m, s>> and <<"hm", h, m>>.
EtaDisplay(eta_seconds) ==
    LET eta_minutes == eta_seconds \div 60
        eta_remaining_seconds == eta_seconds % 60
    IN  IF eta_seconds <= 0 THEN <<"Due now">>
        ELSE IF eta_seconds < 60 THEN <<"s", eta_seconds>>
        ELSE IF eta_minutes < 60 THEN <<"ms", eta_minutes, eta_remaining_seconds>>
        ELSE <<"hm", eta_minutes \div 60, eta_minutes % 60>>

\* A fault seeded for C30: lines 384-391 without the move to tomorrow of
\* lines 387-389.
EtaSecondsToday(departure_time, current_time) ==
    TimeValue(departure_time) - current_time.tod - (IF current_time.frac THEN 1 ELSE 0)

\* Lines 384-391.  current_time is [tod |-> seconds after midnight, frac |->
\* whether datetime.now() has a non-zero microsecond]; the departure is parsed
\* onto today's date, moved to tomorrow when it is before current_time, and
\* int() drops the fraction of the difference.
EtaSeconds(departure_time, current_time) ==
    LET departure == TimeValue(departure_time)
        is_before == \/ departure < current_time.tod
                     \/ departure = current_time.tod /\ current_time.frac
        departure_dt == IF is_before THEN departure + 86400 ELSE departure
    IN  departure_dt - current_time.tod - (IF current_time.frac THEN 1 ELSE 0)

\* Lines 372-412: [eta_display, eta_seconds, next_departure] from the kept
\* predictions.  A departure_time that strptime rejects is shown as it is:
\* <<"text", departure_time>>.
NextDeparture(predictions, current_time) ==
    LET none == [eta_display |-> <<"No predictions">>, eta_seconds |-> 0,
                 next_departure |-> NULL]
    IN  IF predictions = <<>> THEN none
        ELSE
        LET next_pred == predictions[1]
            departure_time == DictGet(next_pred, "departure_time", NULL)
        IN  IF ~Truthy(departure_time) THEN none
            ELSE IF TimeParses(departure_time)
            THEN LET eta_seconds == EtaSeconds(departure_time, current_time)
                 IN  [eta_display |-> EtaDisplay(eta_seconds),
                      eta_seconds |-> eta_seconds,
                      next_departure |-> departure_time]
            ELSE [eta_display |-> <<"text", departure_time>>,
                  eta_seconds |-> 0,
                  next_departure |-> departure_time]

\* Lines 414-419.  "Scheduled: {t}" is <<"Scheduled", t>>.
ScheduledTime(stop_info) ==
    DictGet(stop_info, "departure_time", DictGet(stop_info, "arrival_time", NULL))

ScheduledFallback(eta, stop_info) ==
    IF Truthy(eta.next_departure) THEN eta
    ELSE LET scheduled_time == ScheduledTime(stop_info)
         IN  IF Truthy(scheduled_time)
             THEN [eta EXCEPT !.eta_display = <<"Scheduled", scheduled_time>>,
                              !.next_departure = scheduled_time]
             ELSE eta

\* str.__contains__
Contains(text, part) ==
    \E i \in 1..(Len(text) - Len(part) + 1) :
        \A j \in DOMAIN part : text[i + j - 1] = part[j]

hub_keywords ==
    <<<<"s", "t", "a", "t", "i", "o", "n">>,
       <<"i", "n", "t", "e", "r", "c", "h", "a", "n", "g", "e">>,
       <<"t", "e", "r", "m", "i", "n", "a", "l">>,
       <<"c", "e", "n", "t", "r", "e">>,
       <<"p", "l", "a", "z", "a">>,
       <<"w", "e", "l", "l", "i", "n", "g", "t", "o", "n">>,
       <<"p", "e", "t", "o", "n", "e">>,
       <<"l", "o", "w", "e", "r", " ", "h", "u", "t", "t">>,
       <<"u", "p", "p", "e", "r", " ", "h", "u", "t", "t">>,
       <<"m", "a", "s", "t", "e", "r", "t", "o", "n">>,
       <<"j", "o", "h", "n", "s", "o", "n", "v", "i", "l", "l", "e">>,
       <<"p", "o", "r", "i", "r", "u", "a">>,
       <<"p", "a", "r", "a", "p", "a", "r", "a", "u", "m", "u">>,
       <<"w", "a", "i", "k", "a", "n", "a", "e">> >>

_is_hub_stop(stop_name) ==
    LET stop_name_lower == Lower(stop_name)
    IN  \E k \in DOMAIN hub_keywords : Contains(stop_name_lower, hub_keywords[k])

\* Lines 348-438: the body of the loop over stop_pattern, for one stop and
\* the answer to its stop-predictions request.
TimelineStop(stop_info, response, route_id, direction_id, current_time, pattern_len) ==
    LET predictions ==
            RelevantPredictions(get_stop_predictions(response), route_id, direction_id)
        eta == ScheduledFallback(NextDeparture(predictions, current_time), stop_info)
    IN  [stop_id |-> Str(stop_info.stop_id),
         stop_name |-> stop_info.stop_name,
         stop_sequence |-> DictGet(stop_info, "stop_sequence", 0),
         scheduled_time |-> ScheduledTime(stop_info),
         next_departure |-> eta.next_departure,
         eta_display |-> eta.eta_display,
         eta_seconds |-> eta.eta_seconds,
         prediction_count |-> Len(predictions),
         has_real_time |-> Len(predictions) > 0,
         is_departure |-> DictGet(stop_info, "stop_sequence", 0) = 0,
         is_destination |-> DictGet(stop_info, "stop_sequence", 0) = pattern_len - 1,
         is_hub |-> _is_hub_stop(stop_info.stop_name),
         all_predictions |-> predictions]

\* A fault seeded for C6: the sort of line 441 with reverse=True.
TimelineResultReversed(stops, route_id, direction_id, current_time) ==
    LET timeline_stops ==
            Sorted(stops, [p \in Pairs(stops) |->
                             stops[p[1]].stop_sequence > stops[p[2]].stop_sequence])
    IN  [stops |-> timeline_stops,
         route_id |-> route_id,
         direction_id |-> direction_id,
         current_time |-> TimeText(current_time.tod),
         total_stops |-> Len(timeline_stops),
         departure_stop |-> IF timeline_stops # <<>> THEN <<timeline_stops[1]>> ELSE NULL,
         destination_stop |->
             IF timeline_stops # <<>> THEN <<timeline_stops[Len(timeline_stops)]>> ELSE NULL,
         hub_stops |-> SelectSeq(timeline_stops, LAMBDA stop : stop.is_hub),
         real_time_stops |->
             Cardinality({i \in DOMAIN timeline_stops : timeline_stops[i].has_real_time}),
         error |-> NULL]

\* A fault seeded for C24: destination_stop is timeline_stops[0].
TimelineResultFirstStop(stops, route_id, direction_id, current_time) ==
    LET timeline_stops ==
            Sorted(stops, [p \in Pairs(stops) |->
                             stops[p[1]].stop_sequence < stops[p[2]].stop_sequence])
    IN  [stops |-> timeline_stops,
         route_id |-> route_id,
         direction_id |-> direction_id,
         current_time |-> TimeText(current_time.tod),
         total_stops |-> Len(timeline_stops),
         departure_stop |-> IF timeline_stops # <<>> THEN <<timeline_stops[1]>> ELSE NULL,
         destination_stop |->
             IF timeline_stops # <<>> THEN <<timeline_stops[1]>> ELSE NULL,
         hub_stops |-> SelectSeq(timeline_stops, LAMBDA stop : stop.is_hub),
         real_time_stops |->
             Cardinality({i \in DOMAIN timeline_stops : timeline_stops[i].has_real_time}),
         error |-> NULL]

\* Lines 440-458: the sort and the summary.
TimelineResult(stops, route_id, direction_id, current_time) ==
    LET timeline_stops ==
            Sorted(stops, [p \in Pairs(stops) |->
                             stops[p[1]].stop_sequence < stops[p[2]].stop_sequence])
    IN  [stops |-> timeline_stops,
         route_id |-> route_id,
         direction_id |-> direction_id,
         current_time |-> TimeText(current_time.tod),
         total_stops |-> Len(timeline_stops),
         departure_stop |-> IF timeline_stops # <<>> THEN <<timeline_stops[1]>> ELSE NULL,
         destination_stop |->
             IF timeline_stops # <<>> THEN <<timeline_stops[Len(timeline_stops)]>> ELSE NULL,
         hub_stops |-> SelectSeq(timeline_stops, LAMBDA stop : stop.is_hub),
         real_time_stops |->
             Cardinality({i \in DOMAIN timeline_stops : timeline_stops[i].has_real_time}),
         error |-> NULL]

\* A fault seeded for C10: the empty result without its marker.
NoPatternUnmarked == [stops |-> <<>>, error |-> NULL]

\* A fault seeded for C23: the handler of line 460 returns the result of
\* line 339.
ErrorResultAsNoPattern(exc) == [stops |-> <<>>, error |-> <<"No stop pattern found">>]

\* Line 339 and line 463: the results without a timeline.
NoPatternResult == [stops |-> <<>>, error |-> <<"No stop pattern found">>]
ErrorResult(exc) == [stops |-> <<>>, error |-> <<"str(exc)", exc>>]

(***************************************************************************)
(* api.py: the real-time matcher                                           *)
(***************************************************************************)
get_trip_updates(fetched) ==
    IF ~fetched.ok THEN Raise("MetlinkApiError", "trip_updates")
    ELSE Return(fetched.body)

get_vehicle_positions(fetched) ==
    IF ~fetched.ok THEN Raise("MetlinkApiError", "vehicle_positions")
    ELSE Return(fetched.body)

\* Lines 251-256: the dict stop_predictions, as the sequence of its entries
\* in insertion order.  A key set again keeps its place and takes the new
\* value.
EmptyStopPredictions(stop_pattern) ==
    LET key(i) == Str(stop_pattern[i].stop_id)
        first == {i \in DOMAIN stop_pattern : \A j \in 1..(i - 1) : key(j) # key(i)}
        last(k) == CHOOSE i \in DOMAIN stop_pattern :
                      /\ key(i) = k
                      /\ \A j \in DOMAIN stop_pattern : key(j) = k => j <= i
        place(n) == CHOOSE i \in first : Cardinality({j \in first : j < i}) = n - 1
    IN  [n \in 1..Cardinality(first) |->
            [key |-> key(place(n)),
             stop_info |-> stop_pattern[last(key(place(n)))],
             predictions |-> <<>>]]

\* Lines 259-265: the entities of the feed.
FeedEntities(trip_updates) ==
    IF trip_updates[1] = "dict" /\ trip_updates[2] # NULL THEN trip_updates[2][1]
    ELSE IF trip_updates[1] = "list" THEN trip_updates[2]
    ELSE <<>>

\* Lines 286-315: the prediction of one stop_time_update of a trip, <<p>>, or
\* <<>> when the update has no departure or no time.  A time stamp is a
\* number of seconds; fromtimestamp and strftime give its time of day.
UpdatePrediction(trip_id, stop_update) ==
    LET departure_info == DictGet(stop_update, "departure", NULL)
    IN  IF ~Truthy(departure_info) THEN <<>>
        ELSE LET time_stamp == departure_info[1].time
                 formatted_time == TimeText(time_stamp % 86400)
             IN  IF time_stamp = 0 THEN <<>>
                 ELSE <<[departure_time |-> formatted_time,
                         expected_departure_time |-> formatted_time,
                         delay_seconds |-> departure_info[1].delay,
                         trip_id |-> trip_id,
                         timestamp |-> time_stamp,
                         is_real_time |-> TRUE]>>

\* A fault seeded for C12: the loop without the test of line 280, so that the
\* updates of every trip are recorded.
RECURSIVE KeyPredictionsAnyTrip(_, _, _)
KeyPredictionsAnyTrip(entities, trip_ids, key) ==
    IF entities = <<>> THEN <<>>
    ELSE
    LET entity == Head(entities)
        trip_update == entity.trip_update
        rest == KeyPredictionsAnyTrip(Tail(entities), trip_ids, key)
    IN  IF ~Truthy(trip_update) THEN rest
        ELSE
        LET updates == SelectSeq(trip_update[1].stop_time_update,
                                 LAMBDA u : Str(u.stop_id) = key)
            RECURSIVE Each(_)
            Each(us) ==
                IF us = <<>> THEN <<>>
                ELSE UpdatePrediction(trip_update[1].trip_id, Head(us)) \o Each(Tail(us))
        IN  Each(updates) \o rest

\* The predictions that the loop of lines 268-315 appends under one key.
RECURSIVE KeyPredictions(_, _, _)
KeyPredictions(entities, trip_ids, key) ==
    IF entities = <<>> THEN <<>>
    ELSE
    LET entity == Head(entities)
        trip_update == entity.trip_update
        rest == KeyPredictions(Tail(entities), trip_ids, key)
    IN  IF ~Truthy(trip_update) THEN rest
        ELSE IF trip_update[1].trip_id \notin trip_ids THEN rest
        ELSE
        LET updates == SelectSeq(trip_update[1].stop_time_update,
                                 LAMBDA u : Str(u.stop_id) = key)
            RECURSIVE Each(_)
            Each(us) ==
                IF us = <<>> THEN <<>>
                ELSE UpdatePrediction(trip_update[1].trip_id, Head(us)) \o Each(Tail(us))
        IN  Each(updates) \o rest

NoRouteStops == [stops |-> <<>>, destination |-> NULL, stop_count |-> 0]

\* net holds the outcome of each request: net.trips, net.stop_times and
\* net.stops for the pattern, net.trip_updates, and net.trips_again for the
\* second get_trips_for_route (line 242).
get_route_stop_predictions(route_id, direction_id, net) ==
    LET stop_pattern == get_route_stop_pattern(route_id, direction_id, net)
    IN  IF stop_pattern.raised THEN stop_pattern
        ELSE IF stop_pattern.value = <<>> THEN Return(NoRouteStops)
        ELSE
        LET trip_updates == get_trip_updates(net.trip_updates)
        IN  IF trip_updates.raised THEN trip_updates
            ELSE IF ~HasLen(trip_updates.value) THEN Raise("TypeError", "len(trip_updates)")
            ELSE
            LET trips == get_trips_for_route(route_id, net.trips_again)
            IN  IF trips.raised THEN trips
                ELSE
                LET direction_trips ==
                        SelectSeq(trips.value, LAMBDA t : t.direction_id = direction_id)
                    trip_ids == {direction_trips[i].trip_id : i \in DOMAIN direction_trips}
                    entities == FeedEntities(trip_updates.value)
                    empty == EmptyStopPredictions(stop_pattern.value)
                IN  Return(
                      [stops |->
                         [n \in DOMAIN empty |->
                            [empty[n] EXCEPT !.predictions =
                                KeyPredictions(entities, trip_ids, empty[n].key)]],
                       destination |-> <<stop_pattern.value[Len(stop_pattern.value)]>>,
                       stop_count |-> Len(stop_pattern.value)])

(***************************************************************************)
(* config_flow.py: the route selector                                      *)
(***************************************************************************)
\* sort_key of the second _create_sorted_route_options, the one bound on the
\* class.  The three tuple shapes (0, n, long), (1, alpha, n, long) and
\* (2, short, long) are written <<cls, text, n, long>>; the unused field is
\* constant within a class, so the lexicographic order is Python's.
sort_key(route) ==
    LET short_name == route.route_short_name
        long_name == route.route_long_name
        numeric_part == IntOf(short_name)
        alpha_len == PrefixLen(short_name, AlphaChars)
        rest == SubSeq(short_name, alpha_len + 1, Len(short_name))
        num_len == PrefixLen(rest, DigitChars)
    IN  IF numeric_part # NULL
        THEN <<0, <<>>, numeric_part[1], Lower(long_name)>>
        ELSE IF num_len > 0
        THEN <<1, Lower(SubSeq(short_name, 1, alpha_len)),
               DigitsValue(SubSeq(rest, 1, num_len)), Lower(long_name)>>
        ELSE <<2, Lower(short_name), 0, Lower(long_name)>>

\* key(a) < key(b) on the tuples of sort_key.
KeyLess(ka, kb) ==
    IF ka[1] # kb[1] THEN ka[1] < kb[1]
    ELSE IF ka[2] # kb[2] THEN StrLess(ka[2], kb[2])
    ELSE IF ka[3] # kb[3] THEN ka[3] < kb[3]
    ELSE StrLess(ka[4], kb[4])

RouteLess(a, b) == KeyLess(sort_key(a), sort_key(b))

\* The options dict, as the sequence of its keys in insertion order.
_create_sorted_route_options(routes) ==
    LET sorted_routes ==
            Sorted(routes,
                   [p \in Pairs(routes) |-> RouteLess(routes[p[1]], routes[p[2]])])
    IN  [i \in DOMAIN sorted_routes |-> sorted_routes[i].route_id]

\* api.py lines 56-67, on the answer to the routes request.
get_routes_by_type(route_type, fetched) ==
    IF ~fetched.ok THEN Raise("MetlinkApiError", "routes")
    ELSE Return(SelectSeq(fetched.body,
                          LAMBDA route : DictGet(route, "route_type", NULL) = route_type))

\* configured_route_ids, lines 148-160: the route_id of every entry that has
\* a truthy one.
ConfiguredRouteIds(entries) ==
    {entries[i].route_id : i \in {j \in DOMAIN entries : entries[j].route_id # 0}}

\* A fault seeded for C15: the routes of the type, without the exclusion of
\* lines 163-167.
AvailableRoutesUnfiltered(transportation_type, routes, entries) ==
    get_routes_by_type(transportation_type, routes)

\* config_flow.py lines 141-183.
_get_available_routes_for_type(transportation_type, routes, entries) ==
    LET all_routes == get_routes_by_type(transportation_type, routes)
    IN  IF all_routes.raised THEN all_routes
        ELSE Return(SelectSeq(all_routes.value,
                              LAMBDA route :
                                  DictGet(route, "route_id", NULL)
                                      \notin ConfiguredRouteIds(entries)))

(***************************************************************************)
(* The routes the selector is run on                                       *)
(***************************************************************************)
MaxRoutes == 5

Route(id, short, long) ==
    [route_id |-> id, route_short_name |-> short, route_long_name |-> long]

FetchedRoutes ==
    { Route(1, <<"8", "3">>, <<"E">>),
      Route(2, <<"1">>, <<"I">>),
      Route(3, <<"A", "X">>, <<"A">>),
      Route(4, <<"3", "1", "x">>, <<"B">>),
      Route(5, <<"2">>, <<"M">>),
      Route(6, <<"N", "1">>, <<"N">>),
      Route(7, <<"1">>, <<"b">>) }

RouteById(id) == CHOOSE r \in FetchedRoutes : r.route_id = id

\* The sequences without repetition of at most n elements of S.
RECURSIVE InjectiveSeqs(_, _)
InjectiveSeqs(S, n) ==
    IF n = 0 THEN {<<>>}
    ELSE LET shorter == InjectiveSeqs(S, n - 1)
         IN  shorter \cup
             {Append(s, x) : s \in {t \in shorter : Len(t) = n - 1}, x \in S}

(***************************************************************************)
(* The remote data                                                         *)
(***************************************************************************)
MaxStopTimes == 3
MaxStops == 2
MaxPreds == 2

IntId(n) == <<"int", n>>
StrId(n) == <<"str", n>>

Trip(trip, route, direction) ==
    [trip_id |-> trip, route_id |-> route, direction_id |-> direction]
StopTime(stop, sequence, arrival, departure) ==
    [stop_id |-> stop, stop_sequence |-> sequence,
     arrival_time |-> arrival, departure_time |-> departure]
Stop(stop, name) == [stop_id |-> stop, stop_name |-> name]
Prediction(route, direction, departure) ==
    [route_id |-> route, direction_id |-> direction, departure_time |-> departure]

WellingtonStation == <<"W", "e", "l", "l", "i", "n", "g", "t", "o", "n", " ", "S", "t", "a", "t", "i", "o", "n">>
MainStreet == <<"M", "a", "i", "n", " ", "S", "t", "r", "e", "e", "t">>

\* The sequences of at most n elements of S.
RECURSIVE SeqsUpTo(_, _)
SeqsUpTo(S, n) ==
    IF n = 0 THEN {<<>>}
    ELSE LET shorter == SeqsUpTo(S, n - 1)
         IN  shorter \cup
             {Append(s, x) : s \in {t \in shorter : Len(t) = n - 1}, x \in S}

ListBody(items) == <<"list", items>>

\* The answers to a stop-predictions request over a set of bodies: the
\* request raises, is answered with another status, or with a body.
Responses(bodies) ==
    {[kind |-> "error"], [kind |-> "status"]}
        \cup {[kind |-> "ok", body |-> b] : b \in bodies}

VehiclePositionsBody == ListBody(<<>>)

\* datetime.now(): tod seconds after midnight, frac for a fraction of a second.
Clock(tod, frac) == [tod |-> tod, frac |-> frac]

(***************************************************************************)
(* sensor.py: the coordinator's refresh, one action for each await         *)
(***************************************************************************)
remote == <<remote_trips, remote_stop_times, remote_stops, remote_predictions,
            remote_trip_updates, remote_silent, now>>
flow == <<flow_step, available_routes, route_options, flow_transportation_type, flow_errors,
          current_entries, other_flow, remote_routes>>
coordinator == <<self_route_id, self_direction_id>>
published == <<data, last_update_success, outcome>>
timeline == <<card_stop_pattern, card_timeline_stops, answers>>
locals == <<upd_trips, upd_vehicle_positions, upd_trip_updates, route_timeline_data, route_stop_data>>

vars == <<flow, remote, coordinator, pc, locals, timeline, published, failed>>

\* The locals of a refresh that is not running.
NoLocals ==
    /\ upd_trips = <<>>
    /\ upd_vehicle_positions = <<"none">>
    /\ upd_trip_updates = <<"none">>
    /\ route_timeline_data = [stops |-> <<>>, error |-> NULL]
    /\ route_stop_data = NoRouteStops
    /\ card_stop_pattern = <<>>
    /\ card_timeline_stops = <<>>
    /\ answers = <<>>

\* The fields of a flow at a step, before it has listed any route.
FlowAt(step) ==
    [flow_step |-> step, available_routes |-> <<>>, route_options |-> <<>>,
     flow_transportation_type |-> NULL, flow_errors |-> NULL]

NoFlow ==
    /\ flow_step = "none"
    /\ available_routes = <<>>
    /\ route_options = <<>>
    /\ flow_transportation_type = NULL
    /\ flow_errors = NULL
    /\ current_entries = <<>>
    /\ other_flow = FlowAt("none")
    /\ remote_routes = <<>>

NoRefresh ==
    /\ pc = "idle"
    /\ NoLocals
    /\ data = <<>>
    /\ last_update_success = TRUE
    /\ outcome = "none"
    /\ failed = {}

\* The outcomes of a request made through _request (api.py 38-46): the body,
\* or MetlinkApiError.  When the remote side does not answer, the timeout of
\* line 39 ends the request after REQUEST_TIMEOUT seconds.
Answering == IF remote_silent THEN {FALSE} ELSE BOOLEAN
Fetched(body) == {IF a THEN Answer(body) ELSE NoAnswer : a \in Answering}

\* The requests of the pattern resolver, each answered or not.
PatternNets ==
    {[trips |-> IF t THEN Answer(remote_trips) ELSE NoAnswer,
      stop_times |-> IF st THEN Answer(remote_stop_times) ELSE NoAnswer,
      stops |-> IF s THEN Answer(remote_stops) ELSE NoAnswer] :
        t \in Answering, st \in Answering, s \in Answering}

\* The refresh ends by raising exc: the coordinator keeps its data and
\* records the failure.
RefreshRaises(exc) ==
    /\ pc' = "idle"
    /\ outcome' = exc
    /\ last_update_success' = FALSE
    /\ upd_trips' = <<>>
    /\ upd_vehicle_positions' = <<"none">>
    /\ upd_trip_updates' = <<"none">>
    /\ route_timeline_data' = [stops |-> <<>>, error |-> NULL]
    /\ route_stop_data' = NoRouteStops
    /\ UNCHANGED <<data, timeline>>

\* The interval fires and _async_update_data starts.
StartRefresh ==
    /\ pc = "idle"
    /\ pc' = "get_trips_for_route"
    /\ failed' = {}
    /\ UNCHANGED <<flow, remote, coordinator, locals, timeline, published>>

\* Line 63.
AwaitTrips ==
    /\ pc = "get_trips_for_route"
    /\ \E fetched \in Fetched(remote_trips) :
         LET got == get_trips_for_route(self_route_id, fetched)
         IN  IF got.raised
             THEN /\ RefreshRaises("UpdateFailed")
                  /\ failed' = failed \cup {<<"refresh", got.at>>}
             ELSE /\ upd_trips' = got.value
                  /\ pc' = "get_vehicle_positions"
                  /\ UNCHANGED <<upd_vehicle_positions, upd_trip_updates, route_timeline_data,
                                 route_stop_data, timeline, published, failed>>
    /\ UNCHANGED <<flow, remote, coordinator>>

\* Lines 66-67.
AwaitVehiclePositions ==
    /\ pc = "get_vehicle_positions"
    /\ \E fetched \in Fetched(VehiclePositionsBody) :
         LET got == get_vehicle_positions(fetched)
         IN  IF got.raised
             THEN /\ RefreshRaises("UpdateFailed")
                  /\ failed' = failed \cup {<<"refresh", got.at>>}
             ELSE IF ~HasLen(got.value)
             THEN /\ RefreshRaises("TypeError")
                  /\ UNCHANGED failed
             ELSE /\ upd_vehicle_positions' = got.value
                  /\ pc' = "get_trip_updates"
                  /\ UNCHANGED <<upd_trips, upd_trip_updates, route_timeline_data,
                                 route_stop_data, timeline, published, failed>>
    /\ UNCHANGED <<flow, remote, coordinator>>

\* Lines 69-70.
AwaitTripUpdates ==
    /\ pc = "get_trip_updates"
    /\ \E fetched \in Fetched(remote_trip_updates) :
         LET got == get_trip_updates(fetched)
         IN  IF got.raised
             THEN /\ RefreshRaises("UpdateFailed")
                  /\ failed' = failed \cup {<<"refresh", got.at>>}
             ELSE IF ~HasLen(got.value)
             THEN /\ RefreshRaises("TypeError")
                  /\ UNCHANGED failed
             ELSE /\ upd_trip_updates' = got.value
                  /\ pc' = "get_route_stop_pattern"
                  /\ UNCHANGED <<upd_trips, upd_vehicle_positions, route_timeline_data,
                                 route_stop_data, timeline, published, failed>>
    /\ UNCHANGED <<flow, remote, coordinator>>

\* api.py lines 336-346: get_route_timeline_for_card resolves the pattern.
\* No pattern and any exception end the coroutine with a result (lines 339
\* and 460-463).
AwaitStopPattern ==
    /\ pc = "get_route_stop_pattern"
    /\ \E net \in PatternNets :
         LET got == get_route_stop_pattern(self_route_id, self_direction_id, net)
         IN  IF got.raised
             THEN /\ route_timeline_data' = ErrorResult(got.exc)
                  /\ failed' = failed \cup {<<"timeline", got.at>>}
                  /\ pc' = "get_route_stop_predictions"
                  /\ UNCHANGED timeline
             ELSE IF got.value = <<>>
             THEN /\ route_timeline_data' = NoPatternResult
                  /\ pc' = "get_route_stop_predictions"
                  /\ UNCHANGED <<failed, timeline>>
             ELSE /\ card_stop_pattern' = got.value
                  /\ card_timeline_stops' = <<>>
                  /\ answers' = <<>>
                  /\ pc' = "get_stop_predictions"
                  /\ UNCHANGED <<failed, route_timeline_data>>
    /\ UNCHANGED <<flow, remote, coordinator, upd_trips, upd_vehicle_positions, upd_trip_updates,
                   route_stop_data, published>>

\* api.py lines 348-438: one turn of the loop, around its await.  The request
\* of get_stop_predictions (api.py 202) is made on the session directly,
\* outside _request: it ends when the remote side answers or the connection
\* fails, and waits otherwise.
AwaitStopPredictions ==
    /\ pc = "get_stop_predictions"
    /\ Len(card_timeline_stops) < Len(card_stop_pattern)
    /\ ~remote_silent
    /\ \E response \in Responses(remote_predictions) :
         /\ card_timeline_stops' =
               Append(card_timeline_stops,
                      TimelineStop(card_stop_pattern[Len(card_timeline_stops) + 1], response,
                                   self_route_id, self_direction_id, now, Len(card_stop_pattern)))
         /\ answers' = Append(answers, response.kind)
         /\ failed' = IF response.kind = "error"
                      THEN failed \cup {<<"timeline", "stop_predictions">>}
                      ELSE failed
    /\ UNCHANGED <<flow, remote, coordinator, pc, locals, card_stop_pattern, published>>

\* api.py lines 440-458: the loop is over, the coroutine returns.
ReturnTimeline ==
    /\ pc = "get_stop_predictions"
    /\ Len(card_timeline_stops) = Len(card_stop_pattern)
    /\ route_timeline_data' = TimelineResult(card_timeline_stops, self_route_id, self_direction_id, now)
    /\ pc' = "get_route_stop_predictions"
    /\ UNCHANGED <<flow, remote, coordinator, upd_trips, upd_vehicle_positions, upd_trip_updates,
                   route_stop_data, timeline, published, failed>>

\* The requests of get_route_stop_predictions, each answered or not.
RouteStopNets ==
    {[trips |-> n.trips, stop_times |-> n.stop_times, stops |-> n.stops,
      trip_updates |-> IF u THEN Answer(remote_trip_updates) ELSE NoAnswer,
      trips_again |-> IF t THEN Answer(remote_trips) ELSE NoAnswer] :
        n \in PatternNets, u \in Answering, t \in Answering}

\* Lines 88-108: any exception leaves route_stop_data as it was set.
AwaitRouteStopPredictions ==
    /\ pc = "get_route_stop_predictions"
    /\ \E net \in RouteStopNets :
         LET got == get_route_stop_predictions(self_route_id, self_direction_id, net)
         IN  IF got.raised
             THEN /\ failed' = IF got.exc = "MetlinkApiError"
                               THEN failed \cup {<<"route_stops", got.at>>}
                               ELSE failed
                  /\ UNCHANGED route_stop_data
             ELSE /\ route_stop_data' = got.value
                  /\ UNCHANGED failed
    /\ pc' = "return"
    /\ UNCHANGED <<flow, remote, coordinator, upd_trips, upd_vehicle_positions, upd_trip_updates,
                   route_timeline_data, timeline, published>>

\* Lines 110-116: the refresh returns and the coordinator publishes the dict.
ReturnData ==
    /\ pc = "return"
    /\ data' = <<[trips |-> upd_trips,
                  vehicle_positions |-> upd_vehicle_positions,
                  trip_updates |-> upd_trip_updates,
                  route_stops |-> route_stop_data,
                  route_timeline |-> route_timeline_data]>>
    /\ last_update_success' = TRUE
    /\ outcome' = "ok"
    /\ pc' = "idle"
    /\ upd_trips' = <<>>
    /\ upd_vehicle_positions' = <<"none">>
    /\ upd_trip_updates' = <<"none">>
    /\ route_timeline_data' = [stops |-> <<>>, error |-> NULL]
    /\ route_stop_data' = NoRouteStops
    /\ card_stop_pattern' = <<>>
    /\ card_timeline_stops' = <<>>
    /\ answers' = <<>>
    /\ UNCHANGED <<flow, remote, coordinator, failed>>

(***************************************************************************)
(* sensor.py: what the sensor of the coordinator shows                     *)
(***************************************************************************)
\* Lines 234-237.
available == last_update_success

\* Lines 219-230: None, or <<n>> for the number n of trips of the direction.
native_value ==
    IF data = <<>> THEN NULL
    ELSE <<Cardinality({i \in DOMAIN data[1].trips :
                           DictGet(data[1].trips[i], "direction_id", NULL) = self_direction_id})>>

\* Lines 239-243, 267-268 and 421-422: {} (<<>>), or the attributes of the
\* timeline.
extra_state_attributes ==
    IF data = <<>> THEN <<>>
    ELSE <<[timeline_stops |-> DictGet(data[1].route_timeline, "stops", <<>>),
            timeline_error |-> DictGet(data[1].route_timeline, "error", NULL)]>>

(***************************************************************************)
(* The route selector on the fetched routes                                *)
(***************************************************************************)
InitSort ==
    /\ available_routes \in
         {s \in InjectiveSeqs(FetchedRoutes, MaxRoutes) :
            \A i, j \in DOMAIN s : i # j => s[i] # s[j]}
    /\ flow_step = "transportation_type"
    /\ route_options = <<>>
    /\ flow_transportation_type = NULL
    /\ flow_errors = NULL
    /\ current_entries = <<>>
    /\ other_flow = FlowAt("none")
    /\ remote_routes = <<>>
    /\ remote_trips = <<>>
    /\ remote_stop_times = <<>>
    /\ remote_stops = <<>>
    /\ remote_predictions = {}
    /\ remote_trip_updates = ListBody(<<>>)
    /\ remote_silent = FALSE
    /\ now = Clock(0, FALSE)
    /\ self_route_id = StrId(1)
    /\ self_direction_id = IntId(0)
    /\ NoRefresh

\* async_step_route_selection, line 232: the options shown in the form.
ShowRouteSelection ==
    /\ flow_step = "transportation_type"
    /\ flow_step' = "route_selection"
    /\ route_options' = _create_sorted_route_options(available_routes)
    /\ UNCHANGED <<available_routes, flow_transportation_type, flow_errors, current_entries,
                   other_flow, remote_routes, remote, coordinator, pc, locals, timeline,
                   published, failed>>

NextSort == ShowRouteSelection

SpecSort == InitSort /\ [][NextSort]_vars

(***************************************************************************)
(* The config flow from the transportation type to the entry: the routes   *)
(* resource has routes of two types, and every entry is one that the flow  *)
(* created.                                                                *)
(***************************************************************************)
MaxFetched == 3
MaxEntries == 2

RouteOfType(route, type) ==
    [route_id |-> route.route_id, route_short_name |-> route.route_short_name,
     route_long_name |-> route.route_long_name, route_type |-> type]

\* Three bus routes and a train route.
TypedRoutes ==
    {RouteOfType(RouteById(1), 3), RouteOfType(RouteById(2), 3),
     RouteOfType(RouteById(3), 2), RouteOfType(RouteById(5), 3)}

InitRoutes ==
    /\ flow_step = "transportation_type"
    /\ available_routes = <<>>
    /\ route_options = <<>>
    /\ flow_transportation_type = NULL
    /\ flow_errors = NULL
    /\ current_entries = <<>>
    /\ other_flow = FlowAt("none")
    /\ remote_routes \in
         {s \in InjectiveSeqs(TypedRoutes, MaxFetched) :
            \A i, j \in DOMAIN s : i # j => s[i] # s[j]}
    /\ remote_trips = <<>>
    /\ remote_stop_times = <<>>
    /\ remote_stops = <<>>
    /\ remote_predictions = {}
    /\ remote_trip_updates = ListBody(<<>>)
    /\ remote_silent = FALSE
    /\ now = Clock(0, FALSE)
    /\ self_route_id = StrId(1)
    /\ self_direction_id = IntId(0)
    /\ NoRefresh

\* async_step_transportation_type with user_input, lines 90-127, and the
\* call of async_step_route_selection without user_input, lines 222-243.
\* first and again are the answers to the routes requests of lines 96 and
\* 225.  When the form of the transportation type is shown again, the
\* requests of lines 105-111 only decide the types that are offered.
SubmitTransportationType ==
    /\ flow_step = "transportation_type"
    /\ \E transportation_type \in {2, 3},
          first \in Fetched(remote_routes),
          again \in Fetched(remote_routes) :
         LET got == _get_available_routes_for_type(transportation_type, first, current_entries)
             regot == _get_available_routes_for_type(transportation_type, again, current_entries)
         IN  /\ flow_transportation_type' = <<transportation_type>>
             /\ IF got.raised
                THEN /\ flow_errors' = <<"cannot_connect">>
                     /\ UNCHANGED <<flow_step, available_routes, route_options>>
                ELSE IF got.value = <<>>
                THEN /\ flow_errors' = <<"no_routes_available">>
                     /\ UNCHANGED <<flow_step, available_routes, route_options>>
                ELSE /\ flow_step' = "route_selection"
                     /\ available_routes' = IF regot.raised THEN got.value ELSE regot.value
                     /\ flow_errors' = IF regot.raised THEN <<"cannot_connect">> ELSE NULL
                     /\ route_options' = _create_sorted_route_options(available_routes')
    /\ UNCHANGED <<current_entries, other_flow, remote_routes, remote, coordinator, pc, locals,
                   timeline, published, failed>>

\* async_step_route_selection with user_input, lines 192-219: the entry is
\* created with the route_id that was chosen among the options, and the
\* next flow starts.
SelectRoute ==
    /\ flow_step = "route_selection"
    /\ Len(current_entries) < MaxEntries
    /\ \E q \in DOMAIN route_options :
         /\ \E i \in DOMAIN available_routes :
               available_routes[i].route_id = route_options[q]
         /\ current_entries' = Append(current_entries, [route_id |-> route_options[q]])
    /\ flow_step' = "transportation_type"
    /\ available_routes' = <<>>
    /\ route_options' = <<>>
    /\ flow_transportation_type' = NULL
    /\ flow_errors' = NULL
    /\ UNCHANGED <<other_flow, remote_routes, remote, coordinator, pc, locals, timeline,
                   published, failed>>

NextRoutes ==
    \/ SubmitTransportationType
    \/ SelectRoute

SpecRoutes == InitRoutes /\ [][NextRoutes]_vars

(***************************************************************************)
(* Two config flows in progress at once: each is an instance of the flow   *)
(* class with its own fields, and both read and extend the same entries.   *)
(***************************************************************************)
InitFlows ==
    /\ flow_step = "transportation_type"
    /\ available_routes = <<>>
    /\ route_options = <<>>
    /\ flow_transportation_type = NULL
    /\ flow_errors = NULL
    /\ current_entries = <<>>
    /\ other_flow = FlowAt("transportation_type")
    /\ remote_routes \in
         {s \in InjectiveSeqs(TypedRoutes, MaxFetched) :
            \A i, j \in DOMAIN s : i # j => s[i] # s[j]}
    /\ remote_trips = <<>>
    /\ remote_stop_times = <<>>
    /\ remote_stops = <<>>
    /\ remote_predictions = {}
    /\ remote_trip_updates = ListBody(<<>>)
    /\ remote_silent = FALSE
    /\ now = Clock(0, FALSE)
    /\ self_route_id = StrId(1)
    /\ self_direction_id = IntId(0)
    /\ NoRefresh

\* SubmitTransportationType, in the second flow.
OtherSubmitTransportationType ==
    /\ other_flow.flow_step = "transportation_type"
    /\ \E transportation_type \in {2, 3},
          first \in Fetched(remote_routes),
          again \in Fetched(remote_routes) :
         LET got == _get_available_routes_for_type(transportation_type, first, current_entries)
             regot == _get_available_routes_for_type(transportation_type, again, current_entries)
             routes == IF regot.raised THEN got.value ELSE regot.value
         IN  other_flow' =
               IF got.raised
               THEN [other_flow EXCEPT !.flow_transportation_type = <<transportation_type>>,
                                       !.flow_errors = <<"cannot_connect">>]
               ELSE IF got.value = <<>>
               THEN [other_flow EXCEPT !.flow_transportation_type = <<transportation_type>>,
                                       !.flow_errors = <<"no_routes_available">>]
               ELSE [flow_step |-> "route_selection",
                     available_routes |-> routes,
                     route_options |-> _create_sorted_route_options(routes),
                     flow_transportation_type |-> <<transportation_type>>,
                     flow_errors |-> IF regot.raised THEN <<"cannot_connect">> ELSE NULL]
    /\ UNCHANGED <<flow_step, available_routes, route_options, flow_transportation_type,
                   flow_errors, current_entries, remote_routes, remote, coordinator, pc,
                   locals, timeline, published, failed>>

\* SelectRoute, in the second flow.
OtherSelectRoute ==
    /\ other_flow.flow_step = "route_selection"
    /\ Len(current_entries) < MaxEntries
    /\ \E q \in DOMAIN other_flow.route_options :
         /\ \E i \in DOMAIN other_flow.available_routes :
               other_flow.available_routes[i].route_id = other_flow.route_options[q]
         /\ current_entries' =
               Append(current_entries, [route_id |-> other_flow.route_options[q]])
    /\ other_flow' = FlowAt("transportation_type")
    /\ UNCHANGED <<flow_step, available_routes, route_options, flow_transportation_type,
                   flow_errors, remote_routes, remote, coordinator, pc, locals, timeline,
                   published, failed>>

NextFlows ==
    \/ SubmitTransportationType
    \/ SelectRoute
    \/ OtherSubmitTransportationType
    \/ OtherSelectRoute

SpecFlows == InitFlows /\ [][NextFlows]_vars

(***************************************************************************)
(* The refresh of one coordinator                                          *)
(***************************************************************************)
TimeA == <<0, 5, 0>>
TimeB == <<23, 55, 0>>

\* A stop with both times and stop_sequence 0, one with an arrival only, one
\* with no time and a gap before it.
StopTimeA == StopTime(StrId(1), 0, TimeB, TimeA)
StopTimeB == StopTime(IntId(2), 1, TimeB, NULL)
StopTimeC == StopTime(StrId(1), 3, NULL, NULL)

KnownStops == <<Stop(StrId(1), WellingtonStation), Stop(StrId(2), MainStreet)>>

\* Predictions of the route as a number and as a text, one without a time,
\* one of another route.
PredictionA == Prediction(IntId(1), IntId(0), TimeA)
PredictionB == Prediction(StrId(1), IntId(0), TimeB)
PredictionNoTime == Prediction(StrId(1), IntId(0), NULL)
PredictionOther == Prediction(StrId(2), IntId(0), TimeA)

\* A prediction whose departure_time is past the end of the service day, the
\* way GTFS writes it; strptime rejects the hour.
TimeLate == <<25, 10, 0>>
PredictionLate == Prediction(StrId(1), IntId(0), TimeLate)

\* A feed entity of trip 1 with a departure from stop 1 at 23:55:00 of some day.
EntityA ==
    [trip_update |->
        <<[trip_id |-> IntId(1),
           stop_time_update |->
               <<[stop_id |-> StrId(1),
                  departure |-> <<[time |-> 86400 + 86100, delay |-> 60]>>]>>]>>]

\* The bodies the stop-predictions endpoint answers with: the lists of some
\* predictions, and an object.
PredictionBodies(predictions) ==
    {ListBody(l) : l \in SeqsUpTo(predictions, MaxPreds)} \cup {<<"dict">>}

\* The bodies of /gtfs-rt/tripupdates: a list of entities, an object with the
\* key "entity", an object without it, and null.
TripUpdatesBodies ==
    {ListBody(<<>>), ListBody(<<EntityA>>), <<"dict", <<<<EntityA>>>>>>,
     <<"dict", NULL>>, <<"null">>}

InitRefresh ==
    /\ NoFlow
    /\ NoRefresh
    /\ self_route_id = StrId(1)
    /\ self_direction_id \in {IntId(0), IntId(1)}
    /\ remote_trips \in {<<>>, <<Trip(IntId(1), IntId(1), IntId(0))>>}
    /\ remote_stop_times \in
         {[n \in {1} |-> ListBody(st)] :
            st \in {<<>>, <<StopTimeA>>, <<StopTimeB, StopTimeA>>}}
    /\ remote_stops = KnownStops
    /\ remote_predictions = {ListBody(<<PredictionA>>)}
    /\ remote_trip_updates \in TripUpdatesBodies
    /\ remote_silent = FALSE
    /\ now = Clock(85800, FALSE)

Next ==
    \/ StartRefresh
    \/ AwaitTrips
    \/ AwaitVehiclePositions
    \/ AwaitTripUpdates
    \/ AwaitStopPattern
    \/ AwaitStopPredictions
    \/ ReturnTimeline
    \/ AwaitRouteStopPredictions
    \/ ReturnData

Spec == InitRefresh /\ [][Next]_vars

(***************************************************************************)
(* Cancellation: the task of the refresh is cancelled while it waits at an *)
(* await, and asyncio.CancelledError is raised there.                      *)
(***************************************************************************)
\* The awaits of a refresh, by the position that waits at them.
Awaits ==
    {"get_trips_for_route", "get_vehicle_positions", "get_trip_updates",
     "get_route_stop_pattern", "get_stop_predictions", "get_route_stop_predictions"}

\* The except clauses around the await of a position, innermost first, each
\* with the class it names: api.py 85/181/189 and sensor.py 117; api.py 165,
\* 460 and sensor.py 84, 117; api.py 211, 369, 460 and sensor.py 84, 117;
\* api.py 325 and sensor.py 106, 117.
Handlers(position) ==
    CASE position \in {"get_trips_for_route", "get_vehicle_positions", "get_trip_updates"} ->
            <<"MetlinkApiError", "MetlinkApiError">>
      [] position = "get_route_stop_pattern" ->
            <<"MetlinkApiError", "Exception", "Exception", "MetlinkApiError">>
      [] position = "get_stop_predictions" ->
            <<"Exception", "Exception", "Exception", "Exception", "MetlinkApiError">>
      [] position = "get_route_stop_predictions" ->
            <<"MetlinkApiError", "Exception", "MetlinkApiError">>

\* A fault seeded for C17: CancelledError as a subclass of Exception.
CatchesBaseException(handler, exc) ==
    handler = exc \/ handler = "Exception"

\* except handler: catches exc.  CancelledError derives from BaseException,
\* so that except Exception lets it through.
Catches(handler, exc) ==
    \/ handler = exc
    \/ handler = "Exception" /\ exc # "CancelledError"

Swallowed(position, exc) ==
    \E h \in DOMAIN Handlers(position) : Catches(Handlers(position)[h], exc)

\* CancelledError is raised at the await the refresh stands at.  When no
\* except clause catches it, it leaves _async_update_data: nothing is
\* returned, and the coordinator class of the library decides
\* last_update_success.  A clause that catches it goes on as it does for any
\* exception (api.py 211-213, 460-463, sensor.py 106-108).
Cancel ==
    /\ pc \in Awaits
    /\ pc = "get_stop_predictions" => Len(card_timeline_stops) < Len(card_stop_pattern)
    /\ failed' = failed \cup {<<"cancel", pc>>}
    /\ IF ~Swallowed(pc, "CancelledError")
       THEN /\ pc' = "idle"
            /\ outcome' = "CancelledError"
            /\ last_update_success' \in BOOLEAN
            /\ upd_trips' = <<>>
            /\ upd_vehicle_positions' = <<"none">>
            /\ upd_trip_updates' = <<"none">>
            /\ route_timeline_data' = [stops |-> <<>>, error |-> NULL]
            /\ route_stop_data' = NoRouteStops
            /\ card_stop_pattern' = <<>>
            /\ card_timeline_stops' = <<>>
            /\ answers' = <<>>
            /\ UNCHANGED data
       ELSE IF pc = "get_route_stop_pattern"
       THEN /\ route_timeline_data' = ErrorResult("CancelledError")
            /\ pc' = "get_route_stop_predictions"
            /\ UNCHANGED <<upd_trips, upd_vehicle_positions, upd_trip_updates, route_stop_data,
                           timeline, published>>
       ELSE IF pc = "get_stop_predictions"
       THEN /\ card_timeline_stops' =
                  Append(card_timeline_stops,
                         TimelineStop(card_stop_pattern[Len(card_timeline_stops) + 1],
                                      [kind |-> "error"], self_route_id, self_direction_id,
                                      now, Len(card_stop_pattern)))
            /\ answers' = Append(answers, "error")
            /\ UNCHANGED <<pc, locals, card_stop_pattern, published>>
       ELSE /\ pc' = "return"
            /\ UNCHANGED <<locals, timeline, published>>
    /\ UNCHANGED <<flow, remote, coordinator>>

NextCancel ==
    \/ StartRefresh
    \/ AwaitTrips
    \/ AwaitVehiclePositions
    \/ AwaitTripUpdates
    \/ AwaitStopPattern
    \/ AwaitStopPredictions
    \/ ReturnTimeline
    \/ AwaitRouteStopPredictions
    \/ ReturnData
    \/ Cancel

SpecCancel == InitRefresh /\ [][NextCancel]_vars

(***************************************************************************)
(* A remote side that stops answering.  The refresh is run by the event    *)
(* loop whenever it can take a step; nothing is assumed of the remote      *)
(* side.                                                                   *)
(***************************************************************************)
InitLive ==
    /\ NoFlow
    /\ NoRefresh
    /\ self_route_id = StrId(1)
    /\ self_direction_id = IntId(0)
    /\ remote_trips = <<Trip(IntId(1), IntId(1), IntId(0))>>
    /\ remote_stop_times \in
         {[n \in {1} |-> ListBody(st)] : st \in {<<>>, <<StopTimeA>>, <<StopTimeB, StopTimeA>>}}
    /\ remote_stops = KnownStops
    /\ remote_predictions = PredictionBodies({PredictionA})
    /\ remote_trip_updates = ListBody(<<EntityA>>)
    /\ remote_silent = FALSE
    /\ now = Clock(85800, FALSE)

\* From now on the remote side answers no request.
RemoteFallsSilent ==
    /\ ~remote_silent
    /\ remote_silent' = TRUE
    /\ UNCHANGED <<flow, remote_trips, remote_stop_times, remote_stops, remote_predictions,
                   remote_trip_updates, now, coordinator, pc, locals, timeline, published,
                   failed>>

NextLive ==
    \/ StartRefresh
    \/ AwaitTrips
    \/ AwaitVehiclePositions
    \/ AwaitTripUpdates
    \/ AwaitStopPattern
    \/ AwaitStopPredictions
    \/ ReturnTimeline
    \/ AwaitRouteStopPredictions
    \/ ReturnData
    \/ RemoteFallsSilent

SpecLive == InitLive /\ [][NextLive]_vars /\ WF_vars(Next)

(***************************************************************************)
(* get_route_timeline_for_card on its own: the refresh stands at the call  *)
(* of line 77, and the model follows the coroutine to its return.          *)
(***************************************************************************)
InitTimeline ==
    /\ NoFlow
    /\ pc = "get_route_stop_pattern"
    /\ NoLocals
    /\ data = <<>>
    /\ last_update_success = TRUE
    /\ outcome = "none"
    /\ failed = {}
    /\ self_route_id = StrId(1)
    /\ self_direction_id = IntId(0)
    /\ remote_trips \in {<<>>, <<Trip(IntId(1), IntId(1), IntId(0))>>}
    /\ remote_stop_times \in
         {[n \in {1} |-> ListBody(st)] :
            st \in InjectiveSeqs({StopTimeA, StopTimeB, StopTimeC}, MaxStops)}
    /\ remote_stops = KnownStops
    /\ remote_predictions =
         PredictionBodies({PredictionA, PredictionNoTime, PredictionOther})
    /\ remote_trip_updates = ListBody(<<>>)
    /\ remote_silent = FALSE
    /\ now = Clock(85800, FALSE)

NextTimeline ==
    \/ AwaitStopPattern
    \/ AwaitStopPredictions
    \/ ReturnTimeline

SpecTimeline == InitTimeline /\ [][NextTimeline]_vars

(***************************************************************************)
(* The ETA of the first stop of a pattern, for clocks on both sides of each *)
(* threshold of the display and of the departure itself.                   *)
(***************************************************************************)
Clocks ==
    {Clock(300, FALSE), Clock(299, FALSE), Clock(241, FALSE), Clock(240, FALSE),
     Clock(83101, FALSE), Clock(83100, FALSE), Clock(85800, FALSE),
     Clock(300, TRUE), Clock(299, TRUE)}

InitEta ==
    /\ NoFlow
    /\ pc = "get_route_stop_pattern"
    /\ NoLocals
    /\ data = <<>>
    /\ last_update_success = TRUE
    /\ outcome = "none"
    /\ failed = {}
    /\ self_route_id = StrId(1)
    /\ self_direction_id = IntId(0)
    /\ remote_trips = <<Trip(IntId(1), IntId(1), IntId(0))>>
    /\ remote_stop_times = [n \in {1} |-> ListBody(<<StopTimeA>>)]
    /\ remote_stops = KnownStops
    /\ remote_predictions =
         PredictionBodies({PredictionA, PredictionB, PredictionNoTime, PredictionOther,
                           PredictionLate})
    /\ remote_trip_updates = ListBody(<<>>)
    /\ remote_silent = FALSE
    /\ now \in Clocks

SpecEta == InitEta /\ [][NextTimeline]_vars

(***************************************************************************)
(* get_route_stop_pattern on its own, for identifiers of both types, stops *)
(* missing from /gtfs/stops and stop_times in any order.                   *)
(***************************************************************************)
PatternStopTimes ==
    {StopTime(stop, sequence, TimeB, TimeA) :
        stop \in {IntId(1), StrId(2), StrId(999)}, sequence \in {1, 2}}

InitPattern ==
    /\ NoFlow
    /\ pc = "get_route_stop_pattern"
    /\ NoLocals
    /\ data = <<>>
    /\ last_update_success = TRUE
    /\ outcome = "none"
    /\ failed = {}
    /\ self_route_id \in {StrId(1), IntId(1)}
    /\ self_direction_id \in {IntId(0), IntId(1)}
    /\ remote_trips \in
         {<<Trip(IntId(1), IntId(1), IntId(0))>>,
          <<Trip(StrId(2), StrId(2), IntId(0)), Trip(StrId(2), StrId(1), IntId(1)),
            Trip(StrId(1), StrId(1), IntId(0)), Trip(StrId(2), StrId(1), IntId(0))>>}
    /\ remote_stop_times \in
         {[n \in {1, 2} |-> IF n = 1 THEN body ELSE ListBody(<<StopTimeB, StopTimeA>>)] :
            body \in {ListBody(st) : st \in SeqsUpTo(PatternStopTimes, MaxStopTimes)}
                        \cup {<<"dict">>}}
    /\ remote_stops \in
         {KnownStops,
          <<Stop(IntId(2), MainStreet)>>,
          <<Stop(StrId(1), MainStreet), Stop(IntId(1), WellingtonStation),
            Stop(IntId(2), MainStreet)>>}
    /\ remote_predictions = {ListBody(<<>>)}
    /\ remote_trip_updates = ListBody(<<>>)
    /\ remote_silent = FALSE
    /\ now = Clock(85800, FALSE)

NextPattern == AwaitStopPattern

SpecPattern == InitPattern /\ [][NextPattern]_vars

(***************************************************************************)
(* C1                                                                      *)
(***************************************************************************)
LeadingDigits(short) == SubSeq(short, 1, PrefixLen(short, DigitChars))
HasNumericPrefix(short) == PrefixLen(short, DigitChars) > 0
PurelyAlphabetic(short) == short # <<>> /\ PrefixLen(short, AlphaChars) = Len(short)
SuffixOf(short) == Lower(SubSeq(short, PrefixLen(short, DigitChars) + 1, Len(short)))

ShortNameAt(i) == RouteById(route_options[i]).route_short_name

\* C1: the selector puts every route with a numeric prefix before every purely
\* alphabetic one, and orders the routes with a numeric prefix by the value of
\* the prefix, then by the lower-cased suffix.
C1_RouteSortOrder ==
    flow_step = "route_selection" =>
        \A i, j \in DOMAIN route_options :
            i < j =>
                LET a == ShortNameAt(i)
                    b == ShortNameAt(j)
                IN  /\ ~(PurelyAlphabetic(a) /\ HasNumericPrefix(b))
                    /\ (HasNumericPrefix(a) /\ HasNumericPrefix(b)) =>
                          LET na == DigitsValue(LeadingDigits(a))
                              nb == DigitsValue(LeadingDigits(b))
                          IN  \/ na < nb
                              \/ na = nb /\ ~StrLess(SuffixOf(b), SuffixOf(a))

\* The selector has ordered the five routes of the example.
C1_Witness ==
    /\ flow_step = "route_selection"
    /\ [i \in DOMAIN available_routes |-> available_routes[i].route_id]
          = <<1, 2, 3, 4, 5>>

(***************************************************************************)
(* The filter of the point predictions: the stop-predictions endpoint has  *)
(* one body, with predictions of the route, of another route and of the    *)
(* other direction, each with a departure time.                            *)
(***************************************************************************)
PredictionOtherDirection == Prediction(StrId(1), IntId(1), TimeA)

InitFilter ==
    /\ NoFlow
    /\ pc = "get_route_stop_pattern"
    /\ NoLocals
    /\ data = <<>>
    /\ last_update_success = TRUE
    /\ outcome = "none"
    /\ failed = {}
    /\ self_route_id = StrId(1)
    /\ self_direction_id = IntId(0)
    /\ remote_trips = <<Trip(IntId(1), IntId(1), IntId(0))>>
    /\ remote_stop_times \in
         {[n \in {1} |-> ListBody(st)] : st \in {<<StopTimeA>>, <<StopTimeB, StopTimeA>>}}
    /\ remote_stops = KnownStops
    /\ remote_predictions \in
         {{body} : body \in PredictionBodies({PredictionA, PredictionB, PredictionOther,
                                              PredictionOtherDirection})}
    /\ remote_trip_updates = ListBody(<<>>)
    /\ remote_silent = FALSE
    /\ now = Clock(85800, FALSE)

SpecFilter == InitFilter /\ [][NextTimeline]_vars

(***************************************************************************)
(* get_route_stop_predictions on its own: the refresh stands at the call   *)
(* of line 91.  The route has trips in both directions; the feed is made   *)
(* of entities of both, of a trip whose identifier is sent as text, and of *)
(* an entity without a trip_update.                                        *)
(***************************************************************************)
MaxEntities == 2

StopUpdate(stop, departure) == [stop_id |-> stop, departure |-> departure]
Departure(time, delay) == <<[time |-> time, delay |-> delay]>>
Entity(trip, updates) ==
    [trip_update |-> <<[trip_id |-> trip, stop_time_update |-> updates]>>]

\* Updates of trip 1 for stop 2 (its identifier a number), for stop 1 without
\* a departure, for a stop that is not in the pattern, and for stop 2 with a
\* departure without a time.
EntityB ==
    Entity(IntId(1),
           <<StopUpdate(IntId(2), Departure(86400 + 300, 0)),
             StopUpdate(StrId(1), NULL),
             StopUpdate(StrId(9), Departure(86400 + 600, 0)),
             StopUpdate(StrId(2), Departure(0, 0))>>)
EntityOtherDirection ==
    Entity(IntId(2), <<StopUpdate(StrId(1), Departure(86400 + 900, 0))>>)
EntityTextTrip ==
    Entity(StrId(1), <<StopUpdate(StrId(1), Departure(86400 + 1200, 30))>>)
EntityNoUpdate == [trip_update |-> NULL]
\* A departure of trip 3 from stop 1 that is earlier than the one of trip 1
\* in EntityA.
EntityEarlier ==
    Entity(IntId(3), <<StopUpdate(StrId(1), Departure(86400 + 86000, 0))>>)

FeedBodies ==
    LET feeds == SeqsUpTo({EntityA, EntityB, EntityOtherDirection, EntityTextTrip,
                           EntityNoUpdate, EntityEarlier}, MaxEntities)
    IN  {ListBody(l) : l \in feeds}
          \cup {<<"dict", <<l>>>> : l \in {f \in feeds : Len(f) = 1}}

InitMatcher ==
    /\ NoFlow
    /\ pc = "get_route_stop_predictions"
    /\ NoLocals
    /\ data = <<>>
    /\ last_update_success = TRUE
    /\ outcome = "none"
    /\ failed = {}
    /\ self_route_id = StrId(1)
    /\ self_direction_id = IntId(0)
    /\ remote_trips =
         <<Trip(IntId(2), IntId(1), IntId(1)), Trip(IntId(1), IntId(1), IntId(0)),
           Trip(IntId(3), IntId(1), IntId(0))>>
    /\ remote_stop_times \in
         {[n \in {1, 2, 3} |-> ListBody(st)] :
            st \in {<<StopTimeA>>, <<StopTimeB, StopTimeA>>,
                    <<StopTimeA, StopTimeB, StopTimeC>>}}
    /\ remote_stops = KnownStops
    /\ remote_predictions = {ListBody(<<>>)}
    /\ remote_trip_updates \in FeedBodies
    /\ remote_silent = FALSE
    /\ now = Clock(85800, FALSE)

NextMatcher ==
    \/ AwaitRouteStopPredictions
    \/ ReturnData

SpecMatcher == InitMatcher /\ [][NextMatcher]_vars

(***************************************************************************)
(* Properties of the refresh                                               *)
(***************************************************************************)
\* The requests of the static resources and of the real-time sources, by the
\* name the model records a failure under.
StaticFetches == {"trips", "stop_times", "stops"}
RealtimeFetches == {"vehicle_positions", "trip_updates", "stop_predictions"}

\* A refresh has run to its end and none is running.
RefreshEnded == pc = "idle" /\ outcome # "none"

\* get_route_timeline_for_card resolved a pattern with stops and has returned.
TimelineReturned == pc = "get_route_stop_predictions" /\ card_stop_pattern # <<>>

\* C2: a refresh in which only real-time fetches failed (vehicle positions,
\* trip updates, point predictions) and every static fetch succeeded ends
\* successfully.
C2_RealtimeFailureNotFatal ==
    (/\ RefreshEnded
     /\ failed # {}
     /\ \A f \in failed : f[2] \in RealtimeFetches)
        => outcome = "ok" /\ last_update_success

\* C3: a refresh in which a fetch of trips, stop_times or stops failed while
\* the stop pattern of the timeline was resolved ends with UpdateFailed.
C3_StaticFailureFatal ==
    (/\ RefreshEnded
     /\ \E at \in StaticFetches : <<"timeline", at>> \in failed)
        => outcome = "UpdateFailed"

\* A pattern stop has a scheduled time: an arrival or a departure.
HasScheduledTime(stop_info) ==
    stop_info.arrival_time # NULL \/ stop_info.departure_time # NULL

\* C4: when the stop-predictions request raised for every stop, the timeline
\* has one stop for every stop of the pattern, none with real-time data, and
\* each stop that has a scheduled time shows it as "Scheduled: ...".
C4_AllPredictionsFailed ==
    (/\ TimelineReturned
     /\ \A i \in DOMAIN answers : answers[i] = "error")
        => /\ route_timeline_data.error = NULL
           /\ Len(route_timeline_data.stops) = Len(card_stop_pattern)
           /\ \A i \in DOMAIN route_timeline_data.stops :
                /\ ~route_timeline_data.stops[i].has_real_time
                /\ HasScheduledTime(card_stop_pattern[i])
                      => route_timeline_data.stops[i].eta_display[1] = "Scheduled"

\* The trips of the coordinator's route and direction, the stop_times of the
\* first of them as the remote API holds them, and whether /gtfs/stops has
\* the stop of a stop_time: identifiers are compared by their digits.
SampleTrips ==
    SelectSeq(remote_trips,
              LAMBDA t : /\ t.route_id[2] = self_route_id[2]
                         /\ t.direction_id = self_direction_id)
SampleBody == remote_stop_times[SampleTrips[1].trip_id[2]]
SampleStopTimes == IF SampleBody[1] = "list" THEN SampleBody[2] ELSE <<>>
StopIsKnown(stop_time) ==
    \E i \in DOMAIN remote_stops : remote_stops[i].stop_id[2] = stop_time.stop_id[2]

\* The number of entries of s for stop n at stop_sequence q.
Count(s, n, q) ==
    Cardinality({i \in DOMAIN s : s[i].stop_id[2] = n /\ s[i].stop_sequence = q})

\* What the resolver returned: the pattern, or the empty list.
ResolvedPattern == IF pc = "get_stop_predictions" THEN card_stop_pattern ELSE <<>>

\* No request of a static resource failed.
NoStaticFailure == \A f \in failed : f[2] \notin StaticFetches

\* C5: when the route and direction have a trip and no request failed, the
\* resolver raises nothing and returns the stop_times of the first trip whose
\* stop is in /gtfs/stops, identifiers compared as text: stop_sequence never
\* decreases along the pattern, and its length is the number of stop_times
\* less the number with an unknown stop.
C5_PatternOfKnownStops ==
    (/\ pc # "get_route_stop_pattern"
     /\ NoStaticFailure
     /\ SampleTrips # <<>>)
        => LET pattern == ResolvedPattern
               unknown == {i \in DOMAIN SampleStopTimes :
                             ~StopIsKnown(SampleStopTimes[i])}
           IN  /\ failed = {}
               /\ route_timeline_data.error \in {NULL, <<"No stop pattern found">>}
               /\ \A i, j \in DOMAIN pattern :
                     i < j => pattern[i].stop_sequence <= pattern[j].stop_sequence
               /\ Len(pattern) = Len(SampleStopTimes) - Cardinality(unknown)
               /\ \A i \in DOMAIN SampleStopTimes :
                     LET stop_time == SampleStopTimes[i]
                         n == stop_time.stop_id[2]
                         q == stop_time.stop_sequence
                     IN  Count(pattern, n, q) =
                            IF StopIsKnown(stop_time)
                            THEN Count(SampleStopTimes, n, q) ELSE 0

\* The resolver was given stop_times out of order, one of them of stop "999",
\* dropped it, and matched a stop whose identifier has the other type.
C5_Witness ==
    /\ pc = "get_stop_predictions"
    /\ Len(card_stop_pattern) >= 2
    /\ Len(card_stop_pattern) < Len(SampleStopTimes)
    /\ \E i \in DOMAIN SampleStopTimes : SampleStopTimes[i].stop_id = StrId(999)
    /\ \E i, j \in DOMAIN SampleStopTimes :
          i < j /\ SampleStopTimes[i].stop_sequence > SampleStopTimes[j].stop_sequence
    /\ \E i \in DOMAIN card_stop_pattern : \E j \in DOMAIN SampleStopTimes :
          /\ SampleStopTimes[j].stop_id[2] = card_stop_pattern[i].stop_id[2]
          /\ SampleStopTimes[j].stop_id[1] # card_stop_pattern[i].stop_id[1]

\* C6: whatever the stop-predictions requests answered, the timeline returned
\* for a pattern of N >= 1 stops has N stops, in ascending stop_sequence.
C6_OneTimelineStopPerPatternStop ==
    TimelineReturned =>
        /\ Len(route_timeline_data.stops) = Len(card_stop_pattern)
        /\ \A i, j \in DOMAIN route_timeline_data.stops :
              i < j => route_timeline_data.stops[i].stop_sequence
                          <= route_timeline_data.stops[j].stop_sequence

\* A timeline of two stops was returned, one stop with predictions, one whose
\* request did not answer with a body.
C6_Witness ==
    /\ TimelineReturned
    /\ Len(route_timeline_data.stops) = 2
    /\ route_timeline_data.stops[1].stop_sequence
          < route_timeline_data.stops[2].stop_sequence
    /\ \E i \in DOMAIN route_timeline_data.stops :
          route_timeline_data.stops[i].has_real_time
    /\ \E i \in DOMAIN answers : answers[i] # "ok"

\* The ETA of a timeline stop was computed from a prediction.
HasComputedEta(stop) ==
    /\ stop.has_real_time
    /\ stop.all_predictions[1].departure_time # NULL
    /\ TimeParses(stop.all_predictions[1].departure_time)

\* C7: the display of a computed ETA follows from eta_seconds: "Due now" up
\* to 0, "{s}s" below 60, "{m}m {s}s" below 3600 and "{h}h {m}m" from there;
\* 0, 59, 60 and 3600 show as "Due now", "59s", "1m 0s" and "1h 0m".
C7_EtaDisplayThresholds ==
    \A i \in DOMAIN card_timeline_stops :
        LET stop == card_timeline_stops[i]
            eta == stop.eta_seconds
        IN  HasComputedEta(stop) =>
              /\ eta <= 0 => stop.eta_display = <<"Due now">>
              /\ (0 < eta /\ eta < 60) => stop.eta_display = <<"s", eta>>
              /\ (60 <= eta /\ eta < 3600)
                    => stop.eta_display = <<"ms", eta \div 60, eta % 60>>
              /\ 3600 <= eta
                    => stop.eta_display = <<"hm", eta \div 3600, (eta % 3600) \div 60>>
              /\ eta = 0 => stop.eta_display = <<"Due now">>
              /\ eta = 59 => stop.eta_display = <<"s", 59>>
              /\ eta = 60 => stop.eta_display = <<"ms", 1, 0>>
              /\ eta = 3600 => stop.eta_display = <<"hm", 1, 0>>

\* At 00:04:00 a departure predicted for 00:05:00 is 60 seconds away and shown
\* as "1m 0s".
C7_Witness ==
    /\ now = Clock(240, FALSE)
    /\ card_timeline_stops # <<>>
    /\ HasComputedEta(card_timeline_stops[1])
    /\ card_timeline_stops[1].next_departure = TimeA
    /\ card_timeline_stops[1].eta_seconds = 60
    /\ card_timeline_stops[1].eta_display = <<"ms", 1, 0>>

\* C8: a timeline stop whose departure is at an earlier time of day than the
\* clock has the ETA of that time on the next day, a positive number; a
\* scheduled 00:05:00 at 23:50:00 has eta_seconds 900.
C8_DepartureRollsOver ==
    TimelineReturned =>
        \A i \in DOMAIN route_timeline_data.stops :
            LET stop == route_timeline_data.stops[i]
            IN  (/\ stop.next_departure # NULL
                 /\ TimeValue(stop.next_departure) < now.tod)
                    => stop.eta_seconds
                          = TimeValue(stop.next_departure) + 86400 - now.tod

\* A timeline stop has no prediction to compute an ETA from.
NoUsablePrediction(stop) ==
    \/ stop.all_predictions = <<>>
    \/ stop.all_predictions[1].departure_time = NULL

\* C9: a timeline stop without a usable prediction shows the scheduled
\* departure_time of its pattern stop, or the arrival_time when there is no
\* departure_time, as "Scheduled: ...".
C9_ScheduledFallback ==
    TimelineReturned =>
        \A i \in DOMAIN route_timeline_data.stops :
            LET stop == route_timeline_data.stops[i]
                stop_info == card_stop_pattern[i]
            IN  NoUsablePrediction(stop) =>
                  /\ stop_info.departure_time # NULL
                        => stop.eta_display = <<"Scheduled", stop_info.departure_time>>
                  /\ (stop_info.departure_time = NULL /\ stop_info.arrival_time # NULL)
                        => stop.eta_display = <<"Scheduled", stop_info.arrival_time>>

\* No request failed, of a static resource or of a real-time source.
NoFetchFailed ==
    \A f \in failed : f[2] \notin StaticFetches \cup RealtimeFetches

\* C10: when the route has no trip in the direction and no request failed,
\* the timeline is the empty one marked "No stop pattern found", the route
\* stops have stop_count 0, and the refresh ends successfully with both.
C10_NoTripsIsNotAFailure ==
    (SampleTrips = <<>> /\ NoFetchFailed) =>
        /\ failed = {}
        /\ pc \in {"get_route_stop_predictions", "return"}
              => /\ route_timeline_data.stops = <<>>
                 /\ route_timeline_data.error = <<"No stop pattern found">>
        /\ pc = "return"
              => route_stop_data.stop_count = 0 /\ route_stop_data.stops = <<>>
        /\ (RefreshEnded /\ HasLen(remote_trip_updates))
              => /\ outcome = "ok"
                 /\ last_update_success
                 /\ data[1].route_timeline.stops = <<>>
                 /\ data[1].route_timeline.error = <<"No stop pattern found">>
                 /\ data[1].route_stops.stop_count = 0

\* A refresh for direction 1 of a route whose only trip runs in direction 0
\* has ended and published the marked empty timeline.
C10_Witness ==
    /\ RefreshEnded
    /\ remote_trips # <<>>
    /\ SampleTrips = <<>>
    /\ failed = {}
    /\ outcome = "ok"
    /\ data # <<>>
    /\ data[1].route_timeline.error = <<"No stop pattern found">>
    /\ data[1].route_stops.stop_count = 0

\* C11: whatever the shape of the trip-updates body (a list, an object with
\* or without "entity", null), a refresh in which no request failed ends
\* successfully.
C11_FeedShapeNeverFatal ==
    (RefreshEnded /\ NoFetchFailed) => outcome = "ok"

\* The trip_ids of the trips of the route and direction, as /gtfs/trips sends
\* them, and the entities of the feed.
TargetTripIds == {SampleTrips[i].trip_id : i \in DOMAIN SampleTrips}
FeedOf(body) ==
    IF body[1] = "list" THEN body[2]
    ELSE IF body[1] = "dict" /\ body[2] # NULL THEN body[2][1]
    ELSE <<>>

\* The stop updates of the feed that give stop n a departure: <<i, j>> is
\* update j of entity i, an entity of one of the trips, with a time stamp.
DepartureUpdates(n) ==
    LET feed == FeedOf(remote_trip_updates)
    IN  {p \in UNION {{<<i, j>> : j \in DOMAIN feed[i].trip_update[1].stop_time_update} :
                         i \in {k \in DOMAIN feed : feed[k].trip_update # NULL}} :
            LET update == feed[p[1]].trip_update[1].stop_time_update[p[2]]
            IN  /\ feed[p[1]].trip_update[1].trip_id \in TargetTripIds
                /\ update.stop_id[2] = n
                /\ update.departure # NULL
                /\ update.departure[1].time # 0}

\* get_route_stop_predictions has returned a result for a resolved pattern.
MatcherReturned ==
    /\ pc = "return"
    /\ \A f \in failed : f[1] # "route_stops"
    /\ HasLen(remote_trip_updates)
    /\ SampleTrips # <<>>
    /\ \E i \in DOMAIN SampleStopTimes : StopIsKnown(SampleStopTimes[i])

\* C12: the result has one entry for every stop of the pattern; the entry of
\* stop S holds one prediction, tagged is_real_time, for each stop update of
\* an entity of a trip of the route and direction that names S and has a
\* departure time stamp, and no other; a stop without such an update has an
\* empty list.
C12_PredictionsOfMatchingUpdates ==
    MatcherReturned =>
        LET stops == route_stop_data.stops
            feed == FeedOf(remote_trip_updates)
        IN  /\ {stops[k].key[2] : k \in DOMAIN stops}
                  = {SampleStopTimes[i].stop_id[2] :
                        i \in {j \in DOMAIN SampleStopTimes :
                                  StopIsKnown(SampleStopTimes[j])}}
            /\ \A k \in DOMAIN stops :
                  LET predictions == stops[k].predictions
                      updates == DepartureUpdates(stops[k].key[2])
                  IN  /\ Len(predictions) = Cardinality(updates)
                      /\ \A q \in DOMAIN predictions :
                            /\ predictions[q].is_real_time
                            /\ \E p \in updates :
                                  LET trip_update == feed[p[1]].trip_update[1]
                                      departure ==
                                          trip_update.stop_time_update[p[2]].departure[1]
                                  IN  /\ predictions[q].trip_id = trip_update.trip_id
                                      /\ predictions[q].timestamp = departure.time
                                      /\ predictions[q].delay_seconds = departure.delay

\* The matcher returned for a pattern of two stops and a feed with updates of
\* the trip and of the trip of the other direction: stop 1 has a prediction,
\* stop 2 has none.
C12_Witness ==
    /\ MatcherReturned
    /\ remote_trip_updates = ListBody(<<EntityOtherDirection, EntityA>>)
    /\ Len(route_stop_data.stops) = 2
    /\ \E k \in DOMAIN route_stop_data.stops :
          Len(route_stop_data.stops[k].predictions) = 1
    /\ \E k \in DOMAIN route_stop_data.stops :
          route_stop_data.stops[k].predictions = <<>>

\* The predictions the stop-predictions endpoint answers with, when it has
\* one body, and the positions of those of the route and direction.
FetchedPredictions ==
    LET body == CHOOSE b \in remote_predictions : TRUE
    IN  IF body[1] = "list" THEN body[2] ELSE <<>>
OfRouteAndDirection ==
    {i \in DOMAIN FetchedPredictions :
        /\ FetchedPredictions[i].route_id[2] = self_route_id[2]
        /\ FetchedPredictions[i].direction_id[2] = self_direction_id[2]}

\* C13: for each pattern stop whose predictions were fetched, all_predictions
\* is made of the fetched predictions of the route and direction, the three
\* earliest of them at most, in order of departure time; predictions of
\* other routes do not change that.
C13_RouteFilter ==
    (TimelineReturned /\ Cardinality(remote_predictions) = 1) =>
        \A i \in DOMAIN card_timeline_stops :
            answers[i] = "ok" =>
                LET predictions == card_timeline_stops[i].all_predictions
                    count == Cardinality(OfRouteAndDirection)
                IN  /\ Len(predictions) = IF count < 3 THEN count ELSE 3
                    /\ \E f \in [DOMAIN predictions -> OfRouteAndDirection] :
                          /\ \A q, r \in DOMAIN predictions : q # r => f[q] # f[r]
                          /\ \A q \in DOMAIN predictions :
                                predictions[q] = FetchedPredictions[f[q]]
                          /\ \A q, r \in DOMAIN predictions :
                                q < r => ~TimeLess(predictions[r].departure_time,
                                                   predictions[q].departure_time)
                          /\ \A q \in DOMAIN predictions :
                                \A j \in OfRouteAndDirection \ {f[r] : r \in DOMAIN predictions} :
                                    ~TimeLess(FetchedPredictions[j].departure_time,
                                              predictions[q].departure_time)

\* C14: in a timeline with stops, is_destination marks the last stop and no
\* other, and is_departure marks the stops whose stop_sequence is 0, whatever
\* the numbering of the stop_sequence values.
C14_DestinationIsLastStop ==
    TimelineReturned =>
        LET stops == route_timeline_data.stops
        IN  \A i \in DOMAIN stops :
                /\ stops[i].is_destination <=> i = Len(stops)
                /\ stops[i].is_departure <=> stops[i].stop_sequence = 0

\* The positions in the routes resource of the routes of the type that no
\* entry is configured with, and the one that comes k-th.
AvailablePositions ==
    {i \in DOMAIN remote_routes :
        /\ remote_routes[i].route_type = flow_transportation_type[1]
        /\ \A e \in DOMAIN current_entries :
              current_entries[e].route_id # remote_routes[i].route_id}
PositionOf(k) ==
    CHOOSE i \in AvailablePositions :
        Cardinality({j \in AvailablePositions : j < i}) = k - 1

\* C15: the routes the flow got for the type it was given are the routes of
\* the routes resource with that route_type whose route_id no entry has, in
\* the order of the resource; the flow reports that none is available when
\* there is none.
C15_AvailableRoutes ==
    /\ flow_step = "route_selection" =>
          /\ Len(available_routes) = Cardinality(AvailablePositions)
          /\ \A k \in DOMAIN available_routes :
                available_routes[k] = remote_routes[PositionOf(k)]
    /\ (flow_step = "transportation_type" /\ flow_errors = <<"no_routes_available">>) =>
          AvailablePositions = {}

\* The flow got the routes of a type of which one route is configured and
\* another is not, from a resource that also has a route of another type.
C15_Witness ==
    /\ flow_step = "route_selection"
    /\ available_routes # <<>>
    /\ \E i \in DOMAIN remote_routes, e \in DOMAIN current_entries :
          /\ remote_routes[i].route_type = flow_transportation_type[1]
          /\ remote_routes[i].route_id = current_entries[e].route_id
    /\ \E i \in DOMAIN remote_routes :
          remote_routes[i].route_type # flow_transportation_type[1]

\* A step in which the refresh is cancelled at an await.
Cancelled == \E position \in Awaits : <<"cancel", position>> \in failed' \ failed

\* C17: a refresh that is cancelled at an await ends there with
\* CancelledError: the step leaves the published data as it was and nothing
\* of the refresh is kept.
C17_CancelPublishesNothing ==
    [][Cancelled =>
          /\ data' = data
          /\ pc' = "idle"
          /\ outcome' = "CancelledError"
          /\ route_timeline_data' = [stops |-> <<>>, error |-> NULL]
          /\ card_timeline_stops' = <<>>]_vars

\* A refresh has published, and the next one was cancelled in the loop of
\* the timeline: the data is still there.
C17_Witness ==
    /\ pc = "idle"
    /\ outcome = "CancelledError"
    /\ <<"cancel", "get_stop_predictions">> \in failed
    /\ data # <<>>

\* C19: when the trip-updates request of get_route_stop_predictions fails
\* after the pattern was resolved, the route stops the refresh returns have
\* every stop of the pattern, each with an empty list of predictions, and the
\* destination.
C19_FeedFailureGivesEveryStop ==
    (pc = "return" /\ <<"route_stops", "trip_updates">> \in failed) =>
        /\ route_stop_data.stop_count > 0
        /\ Len(route_stop_data.stops) = route_stop_data.stop_count
        /\ \A k \in DOMAIN route_stop_data.stops :
              route_stop_data.stops[k].predictions = <<>>
        /\ route_stop_data.destination # NULL

\* C20: identifiers are compared as normalized text in every stage; in the
\* matcher, an entity whose trip_id has the text of the trip_id of a trip of
\* the route and direction is an entity of that trip, whatever the type either
\* resource sends it with, and each of its updates for a stop of the pattern
\* with a departure time stamp is recorded under that stop.
C20_NormalizedTripIds ==
    MatcherReturned =>
        LET stops == route_stop_data.stops
            feed == FeedOf(remote_trip_updates)
        IN  \A i \in {e \in DOMAIN feed : feed[e].trip_update # NULL} :
                LET trip_update == feed[i].trip_update[1]
                IN  Str(trip_update.trip_id) \in {Str(t) : t \in TargetTripIds} =>
                        \A j \in DOMAIN trip_update.stop_time_update :
                            LET update == trip_update.stop_time_update[j]
                            IN  \A k \in DOMAIN stops :
                                    (/\ stops[k].key = Str(update.stop_id)
                                     /\ update.departure # NULL
                                     /\ update.departure[1].time # 0) =>
                                        \E q \in DOMAIN stops[k].predictions :
                                            /\ stops[k].predictions[q].trip_id
                                                   = trip_update.trip_id
                                            /\ stops[k].predictions[q].timestamp
                                                   = update.departure[1].time

\* C21: in the result of get_route_stop_predictions, the predictions of every
\* stop are in the order of their time stamps, the earliest first, and there
\* are three of them at most, whatever the order of the entities in the feed.
C21_PredictionsEarliestFirst ==
    MatcherReturned =>
        \A k \in DOMAIN route_stop_data.stops :
            LET predictions == route_stop_data.stops[k].predictions
            IN  /\ Len(predictions) <= 3
                /\ \A q, r \in DOMAIN predictions :
                      q < r => predictions[q].timestamp <= predictions[r].timestamp

\* C22: every request of a refresh ends, by an answer or by its timeout, so
\* that a refresh that has started ends, with data or with a failure, also
\* when the remote side stops answering.
C22_RefreshTerminates ==
    (pc # "idle") ~> (pc = "idle")

\* C23: between refreshes the sensor shows three situations differently.
\* Before any successful refresh it has no value and no attributes.  After a
\* failed refresh that follows a successful one it is unavailable and keeps
\* its value and attributes.  After a successful refresh it is available;
\* when the direction has no trip it shows no stops and "No stop pattern
\* found", and when a request of the pattern failed it shows another error.
C23_SituationsDistinguished ==
    pc = "idle" =>
        /\ data = <<>> => native_value = NULL /\ extra_state_attributes = <<>>
        /\ (data # <<>> /\ outcome \notin {"ok", "none"}) =>
              /\ ~available
              /\ native_value # NULL
              /\ extra_state_attributes # <<>>
        /\ outcome = "ok" =>
              /\ available
              /\ native_value # NULL
              /\ extra_state_attributes # <<>>
              /\ (SampleTrips = <<>> /\ \A f \in failed : f[1] # "timeline") =>
                    /\ extra_state_attributes[1].timeline_stops = <<>>
                    /\ extra_state_attributes[1].timeline_error = <<"No stop pattern found">>
              /\ (\E f \in failed : f[1] = "timeline" /\ f[2] \in StaticFetches) =>
                    /\ extra_state_attributes[1].timeline_error # NULL
                    /\ extra_state_attributes[1].timeline_error # <<"No stop pattern found">>

\* A refresh has failed after one that published the error of a failed
\* request of the pattern: the sensor is unavailable and still shows it.
C23_Witness ==
    /\ pc = "idle"
    /\ data # <<>>
    /\ outcome = "UpdateFailed"
    /\ ~available
    /\ extra_state_attributes[1].timeline_error # NULL
    /\ extra_state_attributes[1].timeline_error # <<"No stop pattern found">>

\* C24: in a timeline returned without error, total_stops is the number of
\* stops, real_time_stops the number of stops with has_real_time,
\* departure_stop the first stop and destination_stop the last, and
\* hub_stops the stops with is_hub, in the order of stops.
C24_TimelineAggregates ==
    (TimelineReturned /\ route_timeline_data.error = NULL) =>
        LET result == route_timeline_data
            stops == result.stops
            hubs == {i \in DOMAIN stops : stops[i].is_hub}
        IN  /\ stops # <<>>
            /\ result.total_stops = Len(stops)
            /\ result.real_time_stops
                  = Cardinality({i \in DOMAIN stops : stops[i].has_real_time})
            /\ result.departure_stop = <<stops[1]>>
            /\ result.destination_stop = <<stops[Len(stops)]>>
            /\ Len(result.hub_stops) = Cardinality(hubs)
            /\ \A k \in DOMAIN result.hub_stops :
                  \E i \in hubs :
                      /\ Cardinality({j \in hubs : j < i}) = k - 1
                      /\ result.hub_stops[k] = stops[i]

\* A timeline of two stops, the first a hub with a prediction, the second
\* neither.
C24_Witness ==
    /\ TimelineReturned
    /\ route_timeline_data.error = NULL
    /\ Len(route_timeline_data.stops) = 2
    /\ route_timeline_data.stops[1].is_hub
    /\ route_timeline_data.stops[1].has_real_time
    /\ ~route_timeline_data.stops[2].is_hub
    /\ ~route_timeline_data.stops[2].has_real_time

\* The position in /gtfs/trips of the first trip of the route and direction.
Matches(i) ==
    /\ remote_trips[i].route_id[2] = self_route_id[2]
    /\ remote_trips[i].direction_id[2] = self_direction_id[2]
Representative ==
    CHOOSE i \in DOMAIN remote_trips : Matches(i) /\ \A j \in 1..(i - 1) : ~Matches(j)

\* C25: every stop of a resolved pattern has the stop, the stop_sequence and
\* the times of a stop_time of the first trip of /gtfs/trips with the route
\* and the direction of the request, whatever the other trips of the
\* direction are.
C25_FirstTripIsRepresentative ==
    (pc = "get_stop_predictions" /\ \E i \in DOMAIN remote_trips : Matches(i)) =>
        LET body == remote_stop_times[remote_trips[Representative].trip_id[2]]
        IN  /\ body[1] = "list"
            /\ \A k \in DOMAIN card_stop_pattern :
                  \E i \in DOMAIN body[2] :
                      /\ body[2][i].stop_id[2] = card_stop_pattern[k].stop_id[2]
                      /\ body[2][i].stop_sequence = card_stop_pattern[k].stop_sequence
                      /\ body[2][i].arrival_time = card_stop_pattern[k].arrival_time
                      /\ body[2][i].departure_time = card_stop_pattern[k].departure_time

\* A pattern was resolved for a direction with two trips of the route whose
\* stop_times differ, after trips of another route and of the other direction.
C25_Witness ==
    /\ pc = "get_stop_predictions"
    /\ Representative = 3
    /\ \E j \in DOMAIN remote_trips :
          /\ j > Representative
          /\ Matches(j)
          /\ remote_stop_times[remote_trips[j].trip_id[2]]
                # remote_stop_times[remote_trips[Representative].trip_id[2]]

\* C26: the ETA of a timeline stop with predictions is the ETA of the most
\* imminent of them: the smallest number of seconds from now to a predicted
\* departure, a departure before now being one of tomorrow.
C26_MostImminentPrediction ==
    TimelineReturned =>
        \A i \in DOMAIN route_timeline_data.stops :
            LET stop == route_timeline_data.stops[i]
                predictions == stop.all_predictions
            IN  (/\ predictions # <<>>
                 /\ \A q \in DOMAIN predictions :
                       /\ predictions[q].departure_time # NULL
                       /\ TimeParses(predictions[q].departure_time)) =>
                    \A q \in DOMAIN predictions :
                        stop.eta_seconds <= EtaSeconds(predictions[q].departure_time, now)

\* C27: however the steps of two config flows interleave, no two entries are
\* created with the same route_id.
C27_NoTwoEntriesForARoute ==
    \A i, j \in DOMAIN current_entries :
        i # j => current_entries[i].route_id # current_entries[j].route_id

\* The display of a timeline stop is the scheduled fallback or "No predictions".
ShowsFallback(stop) ==
    stop.eta_display[1] \in {"Scheduled", "No predictions"}

\* C28: a timeline stop that shows "Scheduled: ..." or "No predictions" has
\* has_real_time false and prediction_count 0, and a stop with has_real_time
\* shows the departure of one of its predictions.
C28_FallbackIsNotLive ==
    TimelineReturned =>
        \A i \in DOMAIN route_timeline_data.stops :
            LET stop == route_timeline_data.stops[i]
            IN  /\ ShowsFallback(stop)
                      => ~stop.has_real_time /\ stop.prediction_count = 0
                /\ stop.has_real_time
                      => \E k \in DOMAIN stop.all_predictions :
                            /\ stop.all_predictions[k].departure_time # NULL
                            /\ stop.all_predictions[k].departure_time = stop.next_departure

\* The visits of the representative trip that the pattern keeps: the
\* stop_times whose stop is in /gtfs/stops.
PatternVisits ==
    {j \in DOMAIN SampleStopTimes : StopIsKnown(SampleStopTimes[j])}

\* C29: in a result of get_route_stop_predictions, stop_count is the number
\* of entries of the stops map and every stop of the pattern has an entry of
\* its own, also when the representative trip visits a stop_id twice.
C29_StopCountIsEntryCount ==
    MatcherReturned =>
        /\ route_stop_data.stop_count = Len(route_stop_data.stops)
        /\ Len(route_stop_data.stops) = Cardinality(PatternVisits)

\* The first kept prediction of a timeline stop has a departure_time that
\* strptime rejects.
HasUnparsedDeparture(stop) ==
    /\ stop.all_predictions # <<>>
    /\ stop.all_predictions[1].departure_time # NULL
    /\ ~TimeParses(stop.all_predictions[1].departure_time)

\* C30: the eta_seconds of every timeline stop is at least 0 and less than
\* 86400, whatever the clock, so that the "{h}h {m}m" form shows at most 23
\* hours; a stop whose departure_time is not a time of day keeps eta_seconds
\* 0, and the timeline is returned with it and without an error.
C30_EtaWithinADay ==
    /\ \A i \in DOMAIN card_timeline_stops :
          LET stop == card_timeline_stops[i]
          IN  /\ 0 <= stop.eta_seconds
              /\ stop.eta_seconds < 86400
              /\ stop.eta_display[1] = "hm" => stop.eta_display[2] <= 23
              /\ HasUnparsedDeparture(stop) => stop.eta_seconds = 0
    /\ TimelineReturned =>
          /\ route_timeline_data.stops = card_timeline_stops
          /\ route_timeline_data.error = NULL

\* Just after a predicted departure of 00:05:00 has passed, its ETA is that of
\* tomorrow's, 86399 seconds, shown as "23h 59m".
C30_Witness ==
    /\ TimelineReturned
    /\ now = Clock(300, TRUE)
    /\ route_timeline_data.stops[1].next_departure = TimeA
    /\ route_timeline_data.stops[1].eta_seconds = 86399
    /\ route_timeline_data.stops[1].eta_display = <<"hm", 23, 59>>

====
